---------------------------- MODULE Spec2Model ----------------------------
(***************************************************************************)
(* A model of the Predict.fun Telegram monitoring bot                      *)
(* (src/telegram_bot.py, src/config.py).                                   *)
(*                                                                         *)
(* Units.  Money is in cents: the code's float `amount` (amountFilled /    *)
(* 1e18, in USDT) is the model's integer number of cents, so the code's    *)
(* `amount >= 1000` is `amount >= 100000` here.  Odds are in units of      *)
(* 0.0001, so the code's 1.0 is 10000.  Time is in seconds.  An optional   *)
(* value (Python None) is the empty sequence, a present value v is <<v>>.  *)
(***************************************************************************)
EXTENDS Integers, Sequences, FiniteSets, TLC

VARIABLES
    orders,                 \* table orders: the ledger of processed trades
    alerts,                 \* table alerts, in insertion order
    whale_history,          \* table whale_history, in insertion order
    market_volume,          \* table market_volume, one row per (market_id, timestamp)
    tracked_table,          \* table tracked_wallets
    tracked_wallets,        \* self.tracked_wallets (memory)
    alerted_transactions,   \* self.alerted_transactions (memory)
    whale_threshold,        \* self.whale_threshold (cents)
    min_coordinated,        \* self.min_coordinated
    monitoring_active,      \* self.monitoring_active
    now,                    \* time.time()
    pc,                     \* where monitoring_loop is suspended
    all_alerts,             \* alerts of the batch in flight not yet sent
    sent,                   \* alerts handed to send_telegram_alert
    last,                   \* what the last loop iteration saw and returned
    hist,                   \* history: what has been admitted and emitted so far
    polls,                  \* number of loop iterations so far
    call                    \* a single function call under test: its input and result

vars == <<orders, alerts, whale_history, market_volume, tracked_table,
          tracked_wallets, alerted_transactions, whale_threshold,
          min_coordinated, monitoring_active, now, pc, all_alerts, sent,
          last, hist, polls, call>>

botVars == <<orders, alerts, whale_history, market_volume, tracked_table,
             tracked_wallets, alerted_transactions, whale_threshold,
             min_coordinated, monitoring_active, now, pc, all_alerts, sent,
             last, hist, polls>>

----------------------------------------------------------------------------
(* Optional values *)

None == <<>>

Some(v) == <<v>>

Max(a, b) == IF a >= b THEN a ELSE b

Min(a, b) == IF a <= b THEN a ELSE b

----------------------------------------------------------------------------
(* Configuration (src/config.py) *)

WHALE_THRESHOLD == 10

MIN_COORDINATED_WALLETS == 5

COORDINATION_WINDOW == 300

CHECK_INTERVAL == 30

TRACK_SPECIFIC_WALLETS == {}

----------------------------------------------------------------------------
(* calculate_entry_quality                                                 *)

Note(text, n) == [text |-> text, n |-> n]

\* A mutant of BetSizeFactor: the larger the bet, the fewer the points.
BetSizeFactorReversed(amount) ==
    IF amount >= 100000 THEN [pts |-> 5, reasons |-> <<Note("Huge whale bet ($1000+)", 0)>>, warnings |-> <<>>]
    ELSE IF amount >= 50000 THEN [pts |-> 10, reasons |-> <<Note("Large whale bet ($500+)", 0)>>, warnings |-> <<>>]
    ELSE IF amount >= 20000 THEN [pts |-> 15, reasons |-> <<Note("Medium whale bet ($200+)", 0)>>, warnings |-> <<>>]
    ELSE IF amount >= 10000 THEN [pts |-> 20, reasons |-> <<Note("Small whale bet ($100+)", 0)>>, warnings |-> <<>>]
    ELSE [pts |-> 25, reasons |-> <<>>, warnings |-> <<Note("Small bet - low conviction", 0)>>]

\* Factor 1: bet size
BetSizeFactor(amount) ==
    IF amount >= 100000 THEN [pts |-> 25, reasons |-> <<Note("Huge whale bet ($1000+)", 0)>>, warnings |-> <<>>]
    ELSE IF amount >= 50000 THEN [pts |-> 20, reasons |-> <<Note("Large whale bet ($500+)", 0)>>, warnings |-> <<>>]
    ELSE IF amount >= 20000 THEN [pts |-> 15, reasons |-> <<Note("Medium whale bet ($200+)", 0)>>, warnings |-> <<>>]
    ELSE IF amount >= 10000 THEN [pts |-> 10, reasons |-> <<Note("Small whale bet ($100+)", 0)>>, warnings |-> <<>>]
    ELSE [pts |-> 5, reasons |-> <<>>, warnings |-> <<Note("Small bet - low conviction", 0)>>]

\* Factor 2: wallet win rate
WinRateFactor(whale_win_rate) ==
    IF whale_win_rate >= 80 THEN [pts |-> 25, reasons |-> <<Note("Elite whale (n% win rate)", whale_win_rate)>>, warnings |-> <<>>]
    ELSE IF whale_win_rate >= 70 THEN [pts |-> 20, reasons |-> <<Note("Sharp whale (n% win rate)", whale_win_rate)>>, warnings |-> <<>>]
    ELSE IF whale_win_rate >= 60 THEN [pts |-> 10, reasons |-> <<Note("Decent whale (n% win rate)", whale_win_rate)>>, warnings |-> <<>>]
    ELSE [pts |-> 0, reasons |-> <<>>, warnings |-> <<Note("Unproven whale", 0)>>]

\* `if current_odds > 1: current_odds = current_odds / 100`: the denominator
\* under which the odds (in units of 0.0001) are read as a probability.
OddsDen(odds) == IF odds > 10000 THEN 1000000 ELSE 10000

\* target_odds as a numerator over OddsDen(odds)
TargetNum(side, odds) == IF side = "Yes" THEN odds ELSE OddsDen(odds) - odds

\* int(target_odds * 100): Python's int() truncates toward zero
TargetPct(side, odds) ==
    LET n == TargetNum(side, odds)
        d == OddsDen(odds)
    IN  IF n >= 0 THEN (n * 100) \div d ELSE 0 - (((0 - n) * 100) \div d)

\* Factor 3: entry price
EntryPriceFactor(side, current_odds) ==
    IF current_odds /= None
    THEN LET odds == current_odds[1]
             n == TargetNum(side, odds)
             d == OddsDen(odds)
             pct == TargetPct(side, odds)
         IN  IF n * 100 < 40 * d THEN [pts |-> 25, reasons |-> <<Note("Excellent entry (n% odds)", pct)>>, warnings |-> <<>>]
             ELSE IF n * 100 < 55 * d THEN [pts |-> 20, reasons |-> <<Note("Good entry (n% odds)", pct)>>, warnings |-> <<>>]
             ELSE IF n * 100 < 65 * d THEN [pts |-> 10, reasons |-> <<Note("Fair entry (n% odds)", pct)>>, warnings |-> <<>>]
             ELSE IF n * 100 < 75 * d THEN [pts |-> 0, reasons |-> <<>>, warnings |-> <<Note("Mediocre entry (n% odds)", pct)>>]
             ELSE [pts |-> 0 - 20, reasons |-> <<>>, warnings |-> <<Note("BAD ENTRY! Already at n% odds", pct)>>]
    ELSE [pts |-> 0, reasons |-> <<>>, warnings |-> <<Note("Odds unknown - check manually!", 0)>>]

\* Factor 4: market liquidity
LiquidityFactor(mvol) ==
    IF mvol >= 2000000 THEN [pts |-> 15, reasons |-> <<Note("Very liquid market ($20k+)", 0)>>, warnings |-> <<>>]
    ELSE IF mvol >= 1000000 THEN [pts |-> 12, reasons |-> <<Note("Liquid market ($10k+)", 0)>>, warnings |-> <<>>]
    ELSE IF mvol >= 500000 THEN [pts |-> 8, reasons |-> <<Note("Decent liquidity ($5k+)", 0)>>, warnings |-> <<>>]
    ELSE IF mvol >= 200000 THEN [pts |-> 3, reasons |-> <<>>, warnings |-> <<Note("Low liquidity ($2k)", 0)>>]
    ELSE [pts |-> 0 - 10, reasons |-> <<>>, warnings |-> <<Note("VERY THIN! Hard to exit", 0)>>]

\* Factor 5: time to close
TimeFactor(days_to_close) ==
    IF days_to_close /= None
    THEN LET d == days_to_close[1]
         IN  IF d <= 1 THEN [pts |-> 10, reasons |-> <<Note("Closes TODAY/TOMORROW!", 0)>>, warnings |-> <<>>]
             ELSE IF d <= 3 THEN [pts |-> 8, reasons |-> <<Note("Fast close (1-3 days)", 0)>>, warnings |-> <<>>]
             ELSE IF d <= 7 THEN [pts |-> 5, reasons |-> <<Note("Quick close (3-7 days)", 0)>>, warnings |-> <<>>]
             ELSE IF d <= 14 THEN [pts |-> 0, reasons |-> <<>>, warnings |-> <<Note("Medium-term (7-14 days)", 0)>>]
             ELSE [pts |-> 0 - 5, reasons |-> <<>>, warnings |-> <<Note("Long-term (14+ days)", 0)>>]
    ELSE [pts |-> 0, reasons |-> <<>>, warnings |-> <<>>]

\* position size from the unclamped score
PositionPct(score) ==
    IF score >= 80 THEN 30
    ELSE IF score >= 65 THEN 20
    ELSE IF score >= 50 THEN 10
    ELSE IF score >= 35 THEN 5
    ELSE 0

NoClamp(score) == score

\* 'score': max(0, min(100, score))
Clamp(score) == Max(0, Min(100, score))

calculate_entry_quality(side, amount, whale_win_rate, current_odds, mvol, days_to_close) ==
    LET f1 == BetSizeFactor(amount)
        f2 == WinRateFactor(whale_win_rate)
        f3 == EntryPriceFactor(side, current_odds)
        f4 == LiquidityFactor(mvol)
        f5 == TimeFactor(days_to_close)
        score == f1.pts + f2.pts + f3.pts + f4.pts + f5.pts
    IN  [score |-> Clamp(score),
         position_pct |-> PositionPct(score),
         reasons |-> f1.reasons \o f2.reasons \o f3.reasons \o f4.reasons \o f5.reasons,
         warnings |-> f1.warnings \o f2.warnings \o f3.warnings \o f4.warnings \o f5.warnings]

----------------------------------------------------------------------------
(* Raw feed records.  A record of the feed is modelled by the fields the    *)
(* code reads: transactionHash, taker.signer, amountFilled, market.id,      *)
(* market.description, market.resolution, taker.outcome.name, executedAt    *)
(* and (detect_volume_spikes only) tokenId, takerAmount, side.              *)

NoWallet == "None"

NoMarket == 0

\* float(amount_str) / 1e18 if amount_str else 0, in cents; None when float()
\* raises ValueError.  Two spellings of one number parse to the same amount.
ParseAmount(amount_str) ==
    CASE amount_str = "" -> Some(0)
      [] amount_str = "0.05" -> Some(5)
      [] amount_str = "50" -> Some(5000)
      [] amount_str = "50.25" -> Some(5025)
      [] amount_str = "99" -> Some(9900)
      [] amount_str = "100" -> Some(10000)
      [] amount_str = "120" -> Some(12000)
      [] amount_str = "124.75" -> Some(12475)
      [] amount_str = "150" -> Some(15000)
      [] amount_str = "150.0" -> Some(15000)
      [] amount_str = "150.25" -> Some(15025)
      [] amount_str = "1000" -> Some(100000)
      [] amount_str = "2000" -> Some(200000)
      [] amount_str = "3000" -> Some(300000)
      [] amount_str = "5000" -> Some(500000)
      [] OTHER -> None

\* datetime.fromisoformat(executedAt).timestamp(), or `fallback` when the
\* field is missing or does not parse
ParseTimestamp(order, fallback) ==
    IF order.executedAt = None THEN fallback ELSE order.executedAt[1]

\* f"{tx_hash}_{taker}_{amount_str}"
order_hash(order) == <<order.transactionHash, order.signer, order.amountFilled>>

\* SELECT 1 FROM orders WHERE order_hash = ?
is_order_processed(order, ledger) ==
    \E row \in ledger : row.order_hash = order_hash(order)

\* The row save_order inserts; the caller has checked that the amount parses.
OrderRow(order, t) ==
    [order_hash |-> order_hash(order),
     market_id |-> order.market_id,
     wallet |-> order.signer,
     side |-> IF order.outcome = "Yes" THEN 0 ELSE 1,
     amount |-> ParseAmount(order.amountFilled)[1],
     timestamp |-> ParseTimestamp(order, t)]

\* save_order: INSERT OR IGNORE; False (and no row) when float() raises or the
\* database write fails.
save_order_ok(order, dbw) == ParseAmount(order.amountFilled) /= None /\ dbw

save_order(order, ledger, t, dbw) ==
    IF save_order_ok(order, dbw) /\ ~is_order_processed(order, ledger)
    THEN ledger \cup {OrderRow(order, t)}
    ELSE ledger

\* A mutant of AdmitOrder: the ledger is not consulted.
AdmitOrderNoLedger(order, ledger) == TRUE

\* `if not self.is_order_processed(order)`
AdmitOrder(order, ledger) == ~is_order_processed(order, ledger)

\* get_order_matches, the filter loop: the orders returned as new and the
\* ledger afterwards.
RECURSIVE FilterNew(_, _, _, _)
FilterNew(all_orders, ledger, t, dbw) ==
    IF all_orders = <<>>
    THEN [new_orders |-> <<>>, ledger |-> ledger]
    ELSE LET order == Head(all_orders)
             admit == AdmitOrder(order, ledger)
             ledger1 == IF admit THEN save_order(order, ledger, t, dbw) ELSE ledger
             rest == FilterNew(Tail(all_orders), ledger1, t, dbw)
         IN  [new_orders |-> IF admit THEN <<order>> \o rest.new_orders ELSE rest.new_orders,
              ledger |-> rest.ledger]

\* get_order_matches: a failed fetch (timeout, connection error, non-200)
\* returns the empty list.
get_order_matches(fetch_ok, all_orders, ledger, t, dbw) ==
    IF fetch_ok
    THEN FilterNew(all_orders, ledger, t, dbw)
    ELSE [new_orders |-> <<>>, ledger |-> ledger]

----------------------------------------------------------------------------
(* Wallet and market aggregates                                            *)

RECURSIVE SumAmount(_)
SumAmount(rows) ==
    IF rows = {} THEN 0
    ELSE LET r == CHOOSE x \in rows : TRUE
         IN  r.amount + SumAmount(rows \ {r})

CountResult(history, wallet, result) ==
    Cardinality({i \in 1..Len(history) :
                    history[i].wallet = wallet /\ history[i].result = result})

\* the volume tiers of get_wallet_win_rate
EstimatedWinRate(total_bets, total_volume) ==
    IF total_bets > 10
    THEN IF total_volume > 500000 THEN 75
         ELSE IF total_volume > 200000 THEN 70
         ELSE IF total_volume > 100000 THEN 65
         ELSE IF total_volume > 50000 THEN 60
         ELSE IF total_volume > 10000 THEN 55
         ELSE 0
    ELSE 0

get_wallet_win_rate(wallet, ledger, history) ==
    LET mine == {row \in ledger : row.wallet = wallet}
        total_bets == Cardinality(mine)
        total_volume == SumAmount(mine)
        wins == CountResult(history, wallet, "WIN")
        losses == CountResult(history, wallet, "LOSS")
        settled == wins + losses
        actual_win_rate == IF settled > 0 THEN (wins * 100) \div settled ELSE 0
        estimated_win_rate ==
            IF actual_win_rate = 0 THEN EstimatedWinRate(total_bets, total_volume) ELSE 0
    IN  [win_rate |-> IF actual_win_rate > 0 THEN actual_win_rate ELSE estimated_win_rate,
         is_actual |-> actual_win_rate > 0,
         wins |-> wins,
         losses |-> losses,
         total_bets |-> total_bets,
         total_volume |-> total_volume]

\* `self.get_wallet_win_rate(wallet) if wallet else {}`, read with .get(k, 0)
WalletStats(wallet, ledger, history) ==
    IF wallet /= NoWallet
    THEN get_wallet_win_rate(wallet, ledger, history)
    ELSE [win_rate |-> 0, is_actual |-> FALSE, wins |-> 0, losses |-> 0,
          total_bets |-> 0, total_volume |-> 0]

\* get_market_context: the 24 h volume of the ledger and the odds the market
\* API answered (api.yes, api.no; None when it gave none or failed).
get_market_context(market_id, ledger, t, api) ==
    [volume |-> SumAmount({row \in ledger :
                    row.market_id = market_id /\ row.timestamp > t - 86400}),
     current_odds_yes |-> api.yes,
     current_odds_no |-> api.no]

\* `self.get_market_context(market_id) if market_id else {}`
MarketInfo(market_id, ledger, t, api) ==
    IF market_id /= NoMarket
    THEN get_market_context(market_id, ledger, t, api)
    ELSE [volume |-> 0, current_odds_yes |-> None, current_odds_no |-> None]

----------------------------------------------------------------------------
(* Market descriptions: the substrings the code looks for.                  *)

Descriptions ==
    {"", "Resolves on December 31, 2026", "Resolves by 2027",
     "Resolves today", "Resolves this week", "Resolves soon",
     "Resolves today, November 5, 2026"}

\* 'December 31, 2026' in description
MentionsEnd2026(description) == description = "Resolves on December 31, 2026"

\* '2026' in description or '2027' in description
MentionsFarYear(description) ==
    description \in {"Resolves on December 31, 2026", "Resolves by 2027",
                     "Resolves today, November 5, 2026"}

\* 'today' in description.lower() or 'tomorrow' in description.lower()
MentionsToday(description) ==
    description \in {"Resolves today", "Resolves today, November 5, 2026"}

\* 'this week' in description.lower() or 'week' in description.lower()
MentionsWeek(description) == description = "Resolves this week"

\* The clock starts StartTime seconds after the model's epoch; 31 December
\* 2026 is DaysLeft days after the start.
StartTime == 1000000

DaysLeft == 56

\* (datetime(2026, 12, 31) - datetime.now()).days
DaysToEnd2026(t) == ((StartTime + DaysLeft * 86400) - t) \div 86400

\* days_to_close as detect_whale_activity derives it
WhaleDaysToClose(order, t) ==
    IF order.resolution THEN Some(0)
    ELSE IF MentionsEnd2026(order.description) THEN Some(DaysToEnd2026(t))
    ELSE None

----------------------------------------------------------------------------
(* The secondary whale check: message LIKE '%wallet%' AND message LIKE      *)
(* '%{amount:.2f}%' on json.dumps(alert).  The pattern is the amount with   *)
(* exactly two decimals; it can occur where the message holds a float with  *)
(* at least two decimals: amount, market_volume, the odds, position_pct.    *)

NumDigits(n) == IF n < 10 THEN 1 ELSE IF n < 100 THEN 2 ELSE IF n < 1000 THEN 3
                ELSE IF n < 10000 THEN 4 ELSE IF n < 100000 THEN 5 ELSE 6

Pow10(k) == CASE k = 1 -> 10 [] k = 2 -> 100 [] k = 3 -> 1000 [] k = 4 -> 10000
              [] k = 5 -> 100000 [] OTHER -> 1000000

\* the decimal digits of p end the decimal digits of r
DigitsEnd(p, r) == r % Pow10(NumDigits(p)) = p

\* pattern (cents) occurs in repr(cents / 100): the repr has two decimals
\* only when the last digit of the cents is not 0
LikeMoney(pattern, cents) ==
    /\ cents % 10 /= 0
    /\ pattern % 100 = cents % 100
    /\ DigitsEnd(pattern \div 100, cents \div 100)

\* pattern occurs in repr(odds / 10000), odds an optional float
LikeOdds(pattern, odds) ==
    /\ odds /= None
    /\ (odds[1] % 10000) % 1000 /= 0
    /\ pattern % 100 = (odds[1] % 10000) \div 100
    /\ DigitsEnd(pattern \div 100, odds[1] \div 10000)

\* pattern occurs in repr(position_pct): 0.3, 0.2, 0.1, 0.05 or 0
LikePosition(pattern, position_pct) == position_pct = 5 /\ pattern = 5

\* message LIKE '%{amount:.2f}%'
MessageLikeAmount(message, amount) ==
    \/ LikeMoney(amount, message.amount)
    \/ LikeMoney(amount, message.market_volume)
    \/ LikeOdds(amount, message.current_odds_yes)
    \/ LikeOdds(amount, message.current_odds_no)
    \/ LikePosition(amount, message.position_pct)

\* message LIKE '%{wallet}%': the wallet is in "wallet" and in "alert_id"
MessageLikeWallet(message, wallet) == message.wallet = wallet

\* SELECT 1 FROM alerts WHERE alert_type = 'WHALE_BET' AND market_id = ? AND
\* timestamp > ? AND message LIKE ? AND message LIKE ?   (NULL = NULL is not true)
SecondaryDuplicate(alerts_table, market_id, wallet, amount, t) ==
    \E i \in 1..Len(alerts_table) :
        /\ alerts_table[i].type = "WHALE_BET"
        /\ market_id /= NoMarket
        /\ alerts_table[i].market_id = market_id
        /\ alerts_table[i].timestamp > t - 3600
        /\ MessageLikeWallet(alerts_table[i], wallet)
        /\ MessageLikeAmount(alerts_table[i], amount)

----------------------------------------------------------------------------
(* detect_whale_activity                                                    *)

\* An entry of self.alerted_transactions: a transaction hash, or the fallback
\* id f"fallback_{wallet}_{market_id}_{amount_str}_{executedAt}".
TxId(tx) == <<tx, "", NoMarket, "", None>>

FallbackId(order) ==
    <<"fallback", order.signer, order.market_id, order.amountFilled, order.executedAt>>

\* A mutant of ThresholdInForce: the configured constant, not the setting.
ThresholdFromConfig(threshold) == WHALE_THRESHOLD

\* the threshold the loop tests a batch against: self.whale_threshold
ThresholdInForce(threshold) == threshold

\* float('nan'): it compares False with every number.  The model writes it
\* as a number that no amount and no accepted threshold is.
NaN == -1

\* A mutant of MeetsThreshold: a strict test.
MeetsThresholdStrict(amount, threshold) == threshold /= NaN /\ amount > threshold

\* `if amount >= self.whale_threshold`
MeetsThreshold(amount, threshold) == threshold /= NaN /\ amount >= threshold

\* A mutant of PrimaryDuplicate: the set is not consulted.
PrimaryDuplicateNever(tx, alerted) == FALSE

\* `if tx_hash and tx_hash in self.alerted_transactions`
PrimaryDuplicate(tx, alerted) == tx /= "" /\ TxId(tx) \in alerted

\* the entry analysis detect_whale_activity asks for
EntryAnalysis(order, amount, ledger, history, t, api) ==
    LET wallet_stats == WalletStats(order.signer, ledger, history)
        market_info == MarketInfo(order.market_id, ledger, t, api)
        relevant_odds == IF order.outcome = "Yes" THEN market_info.current_odds_yes
                         ELSE market_info.current_odds_no
    IN  calculate_entry_quality(order.outcome, amount, wallet_stats.win_rate,
                                relevant_odds, market_info.volume,
                                WhaleDaysToClose(order, t))

\* A mutant of PassesQuality: no quality floor.
PassesQualityAlways(score) == TRUE

\* `if entry_analysis['score'] < 35: continue`
PassesQuality(score) == ~(score < 35)

WhaleAlert(order, amount, tx_hash, ledger, history, t, api) ==
    LET market_info == MarketInfo(order.market_id, ledger, t, api)
        entry == EntryAnalysis(order, amount, ledger, history, t, api)
    IN  [type |-> "WHALE_BET",
         alert_id |-> <<tx_hash, order.signer, order.amountFilled>>,
         market_id |-> order.market_id,
         days_to_close |-> WhaleDaysToClose(order, t),
         wallet |-> order.signer,
         amount |-> amount,
         side |-> order.outcome,
         timestamp |-> ParseTimestamp(order, t),
         market_volume |-> market_info.volume,
         current_odds_yes |-> market_info.current_odds_yes,
         current_odds_no |-> market_info.current_odds_no,
         entry_score |-> entry.score,
         position_pct |-> entry.position_pct]

HistoryRow(order, amount, t) ==
    [wallet |-> order.signer, market_id |-> order.market_id, side |-> order.outcome,
     amount |-> amount, bet_timestamp |-> ParseTimestamp(order, t), result |-> "PENDING"]

\* One turn of the loop of detect_whale_activity.  st holds the alerts table,
\* the whale_history table, self.alerted_transactions, the list `alerts`
\* built so far (out) and whether an exception has left the function.
WhaleOne(st, order, ledger, t, threshold, api, dbw) ==
    LET parsed == ParseAmount(order.amountFilled)
        amount == parsed[1]
        tx == order.transactionHash
        tx_hash == IF tx = "" THEN FallbackId(order) ELSE TxId(tx)
        entry == EntryAnalysis(order, amount, ledger, st.history, t, api)
        alert == WhaleAlert(order, amount, tx_hash, ledger, st.history, t, api)
    IN  IF parsed = None THEN [st EXCEPT !.raised = TRUE]
        ELSE IF ~MeetsThreshold(amount, threshold) THEN st
        ELSE IF PrimaryDuplicate(tx, st.alerted) THEN st
        ELSE IF SecondaryDuplicate(st.alerts, order.market_id, order.signer, amount, t)
             THEN [st EXCEPT !.alerted = IF tx /= "" THEN @ \cup {TxId(tx)} ELSE @]
        ELSE IF ~PassesQuality(entry.score) THEN st
        ELSE [alerts |-> IF dbw THEN Append(st.alerts, alert) ELSE st.alerts,
              history |-> IF dbw THEN Append(st.history, HistoryRow(order, amount, t))
                          ELSE st.history,
              alerted |-> st.alerted \cup {tx_hash},
              out |-> Append(st.out, alert),
              raised |-> FALSE]

RECURSIVE WhaleLoop(_, _, _, _, _, _, _)
WhaleLoop(st, batch, ledger, t, threshold, api, dbw) ==
    IF batch = <<>> \/ st.raised THEN st
    ELSE WhaleLoop(WhaleOne(st, Head(batch), ledger, t, threshold, api, dbw),
                   Tail(batch), ledger, t, threshold, api, dbw)

\* detect_whale_activity(orders): the state it leaves and the list it returns
\* (out; the caller sees no list when raised).
detect_whale_activity(batch, alerts_table, history, alerted, ledger, t, threshold, api, dbw) ==
    WhaleLoop([alerts |-> alerts_table, history |-> history, alerted |-> alerted,
               out |-> <<>>, raised |-> FALSE],
              batch, ledger, t, ThresholdInForce(threshold), api, dbw)

----------------------------------------------------------------------------
(* detect_coordinated_activity                                              *)

\* timestamp of the coordination loop: 0 when executedAt is missing or bad
CoordTimestamp(order) == ParseTimestamp(order, 0)

\* A mutant of InWindow: the window test is dropped.
InWindowAlways(order, t) == TRUE

\* `if current_time - timestamp > COORDINATION_WINDOW: continue`
InWindow(order, t) == ~(t - CoordTimestamp(order) > COORDINATION_WINDOW)

RECURSIVE SelectSeq2(_, _)
\* the orders of the batch inside the window, in batch order
SelectSeq2(batch, t) ==
    IF batch = <<>> THEN <<>>
    ELSE IF InWindow(Head(batch), t) THEN <<Head(batch)>> \o SelectSeq2(Tail(batch), t)
    ELSE SelectSeq2(Tail(batch), t)

\* float(amount_str) raises on one of the orders inside the window
CoordRaises(batch, t) ==
    \E i \in 1..Len(batch) :
        InWindow(batch[i], t) /\ ParseAmount(batch[i].amountFilled) = None

RECURSIVE Distinct(_)
\* the distinct elements of a sequence, in order of first appearance
Distinct(seq) ==
    IF seq = <<>> THEN <<>>
    ELSE LET front == Distinct(SubSeq(seq, 1, Len(seq) - 1))
             x == seq[Len(seq)]
         IN  IF \E i \in 1..Len(front) : front[i] = x THEN front ELSE Append(front, x)

RECURSIVE SumSeq(_)
SumSeq(seq) == IF seq = <<>> THEN 0 ELSE Head(seq) + SumSeq(Tail(seq))

\* market_activity[market_id][side]: the entries of one group, in batch order
GroupOf(win, market_id, side) ==
    SelectSeq(win, LAMBDA o : o.market_id = market_id /\ o.outcome = side)

\* the keys of market_activity in iteration order: markets by first
\* appearance, and inside a market its sides by first appearance
GroupKeys(win) ==
    LET markets == Distinct([i \in 1..Len(win) |-> win[i].market_id])
        sidesOf(m) == LET mine == SelectSeq(win, LAMBDA o : o.market_id = m)
                      IN  Distinct([i \in 1..Len(mine) |-> mine[i].outcome])
        keysOf(m) == [i \in 1..Len(sidesOf(m)) |-> <<m, sidesOf(m)[i]>>]
        Cat[k \in 0..Len(markets)] ==
            IF k = 0 THEN <<>> ELSE Cat[k - 1] \o keysOf(markets[k])
    IN  Cat[Len(markets)]

\* len(set(w['wallet'] for w in wallets if w['wallet']))
UniqueWallets(group) ==
    Cardinality({group[i].signer : i \in 1..Len(group)} \ {NoWallet})

TotalAmount(group) ==
    SumSeq([i \in 1..Len(group) |-> ParseAmount(group[i].amountFilled)[1]])

\* A mutant of EnoughWallets: five wallets are not enough.
EnoughWalletsStrict(unique_wallets) == unique_wallets > 5

\* A mutant of EnoughWallets: one wallet fewer is enough.
EnoughWalletsOffByOne(unique_wallets) == ~(unique_wallets < 4)

\* STRICT FILTER 1: `if unique_wallets < 5: continue`
EnoughWallets(unique_wallets) == ~(unique_wallets < 5)

\* A mutant of EnoughAmount: no floor on the total.
EnoughAmountAlways(total_amount) == TRUE

\* STRICT FILTER 2: `if total_amount < 500: continue`
EnoughAmount(total_amount) == ~(total_amount < 50000)

\* STRICT FILTER 3: close_soon, from the description of the group's first entry
CloseSoon(description) ==
    IF MentionsFarYear(description) THEN FALSE
    ELSE IF MentionsToday(description) THEN TRUE
    ELSE IF MentionsWeek(description) THEN TRUE
    ELSE TRUE

CoordAlert(group, market_id, side, t) ==
    [type |-> "COORDINATED_BETTING",
     market_id |-> market_id,
     side |-> side,
     wallet_count |-> UniqueWallets(group),
     total_amount |-> TotalAmount(group),
     timestamp |-> t,
     quality |-> "HIGH"]

GroupAlerts(group, market_id, side, t) ==
    IF /\ EnoughWallets(UniqueWallets(group))
       /\ EnoughAmount(TotalAmount(group))
       /\ CloseSoon(group[1].description)
    THEN <<CoordAlert(group, market_id, side, t)>>
    ELSE <<>>

\* detect_coordinated_activity(orders): the list it returns, and whether it
\* raised (before any alert is built or saved)
detect_coordinated_activity(batch, t) ==
    IF CoordRaises(batch, t) THEN [out |-> <<>>, raised |-> TRUE]
    ELSE LET win == SelectSeq2(batch, t)
             keys == GroupKeys(win)
             Cat[k \in 0..Len(keys)] ==
                 IF k = 0 THEN <<>>
                 ELSE Cat[k - 1] \o GroupAlerts(GroupOf(win, keys[k][1], keys[k][2]),
                                                keys[k][1], keys[k][2], t)
         IN  [out |-> Cat[Len(keys)], raised |-> FALSE]

----------------------------------------------------------------------------
(* check_tracked_wallets                                                    *)

TrackedAlert(order, t) ==
    [type |-> "TRACKED_WALLET",
     market_id |-> order.market_id,
     wallet |-> order.signer,
     amount |-> ParseAmount(order.amountFilled)[1],
     side |-> order.outcome,
     timestamp |-> ParseTimestamp(order, t)]

\* st holds the list built so far (out), the alerts saved so far (saved) and
\* whether float() raised
RECURSIVE TrackedLoop(_, _, _, _)
TrackedLoop(st, batch, tracked, t) ==
    IF batch = <<>> \/ st.raised THEN st
    ELSE LET order == Head(batch)
             next == IF order.signer = NoWallet \/ order.signer \notin tracked THEN st
                     ELSE IF ParseAmount(order.amountFilled) = None
                          THEN [st EXCEPT !.raised = TRUE]
                     ELSE [st EXCEPT !.out = Append(@, TrackedAlert(order, t))]
         IN  TrackedLoop(next, Tail(batch), tracked, t)

check_tracked_wallets(batch, tracked, t) ==
    TrackedLoop([out |-> <<>>, raised |-> FALSE], batch, tracked, t)

----------------------------------------------------------------------------
(* detect_volume_spikes, get_average_market_volume, save_market_volume      *)

\* float(order.get('takerAmount', 0)) / 1e18: 0 when the key is missing,
\* None when float() raises (also on the empty string)
SpikeAmount(order) ==
    IF order.takerAmount = None THEN Some(0)
    ELSE IF order.takerAmount[1] = "" THEN None
    ELSE ParseAmount(order.takerAmount[1])

\* 'YES' if order.get('side') == 0 else 'NO'
SpikeSide(order) == IF order.side = Some(0) THEN "YES" ELSE "NO"

SpikeRaises(batch) == \E i \in 1..Len(batch) : SpikeAmount(batch[i]) = None

\* the rows AVG(volume) ranges over: WHERE market_id = ? AND timestamp > ?
\* (no row when the market id is NULL)
SnapshotsOf(table, market_id, t) ==
    SelectSeq(table, LAMBDA row : /\ market_id /= None
                                  /\ row.market_id = market_id
                                  /\ row.timestamp > t - 24 * 3600)

\* get_average_market_volume as the pair (sum, count) of the rows averaged
AverageParts(table, market_id, t) ==
    LET rows == SnapshotsOf(table, market_id, t)
    IN  [sum |-> SumSeq([i \in 1..Len(rows) |-> rows[i].volume]), n |-> Len(rows)]

\* A mutant of SpikeGate: a strict comparison.
SpikeGateStrict(volume, sum, n) == n > 0 /\ sum > 0 /\ volume * n > 3 * sum

\* `if avg_volume > 0` and `if spike_ratio >= 3.0`, with avg_volume = sum / n
SpikeGate(volume, sum, n) == n > 0 /\ sum > 0 /\ volume * n >= 3 * sum

\* current_hour = int(time.time()) // 3600 * 3600
HourBucket(t) == (t \div 3600) * 3600

\* INSERT OR REPLACE INTO market_volume: a row of the same (market_id,
\* timestamp) is replaced; a NULL market_id never conflicts
save_market_volume(table, market_id, volume, trades, t, dbw) ==
    IF dbw
    THEN Append(SelectSeq(table, LAMBDA row :
                    ~(market_id /= None /\ row.market_id = market_id
                        /\ row.timestamp = HourBucket(t))),
                [market_id |-> market_id, volume |-> volume, trade_count |-> trades,
                 timestamp |-> HourBucket(t)])
    ELSE table

\* the orders of the batch whose tokenId is market_id
SpikeGroup(batch, market_id) == SelectSeq(batch, LAMBDA o : o.tokenId = market_id)

SpikeVolume(group) == SumSeq([i \in 1..Len(group) |-> SpikeAmount(group[i])[1]])

SideVolume(group, side) ==
    SpikeVolume(SelectSeq(group, LAMBDA o : SpikeSide(o) = side))

\* A mutant of DominantSide: a tie goes to YES.
DominantSideTieYes(yes_vol, no_vol) == IF yes_vol >= no_vol THEN "YES" ELSE "NO"

\* dominant_side = 'YES' if yes_vol > no_vol else 'NO'
DominantSide(yes_vol, no_vol) == IF yes_vol > no_vol THEN "YES" ELSE "NO"

SpikeAlert(group, market_id, avg, t) ==
    LET yes_vol == SideVolume(group, "YES")
        no_vol == SideVolume(group, "NO")
        total_vol == yes_vol + no_vol
    IN  [type |-> "VOLUME_SPIKE",
         market_id |-> market_id,
         current_volume |-> SpikeVolume(group),
         normal_volume |-> <<avg.sum, avg.n>>,
         spike_ratio |-> <<SpikeVolume(group) * avg.n, avg.sum>>,
         dominant_side |-> DominantSide(yes_vol, no_vol),
         side_percentage |-> IF total_vol > 0 THEN <<Max(yes_vol, no_vol) * 100, total_vol>>
                             ELSE <<50, 1>>,
         trades |-> Len(group),
         timestamp |-> t]

\* The loop over market_volumes: st holds the market_volume table and the
\* list of alerts built so far.
RECURSIVE SpikeLoop(_, _, _, _, _)
SpikeLoop(st, markets, batch, t, dbw) ==
    IF markets = <<>> THEN st
    ELSE LET market_id == Head(markets)
             group == SpikeGroup(batch, market_id)
             avg == AverageParts(st.table, market_id, t)
             fire == SpikeGate(SpikeVolume(group), avg.sum, avg.n)
         IN  SpikeLoop([table |-> save_market_volume(st.table, market_id, SpikeVolume(group),
                                                     Len(group), t, dbw),
                        out |-> IF fire THEN Append(st.out, SpikeAlert(group, market_id, avg, t))
                                ELSE st.out],
                       Tail(markets), batch, t, dbw)

\* detect_volume_spikes(orders): the table it leaves and the list it returns;
\* float() raises before anything is read or written
detect_volume_spikes(batch, table, t, dbw) ==
    IF SpikeRaises(batch) THEN [table |-> table, out |-> <<>>, raised |-> TRUE]
    ELSE LET st == SpikeLoop([table |-> table, out |-> <<>>],
                             Distinct([i \in 1..Len(batch) |-> batch[i].tokenId]),
                             batch, t, dbw)
         IN  [table |-> st.table, out |-> st.out, raised |-> FALSE]

\* save_alert for each alert of a list, in order
SaveAlerts(alerts_table, list, dbw) == IF dbw THEN alerts_table \o list ELSE alerts_table

----------------------------------------------------------------------------
(* The feed and the environment of the monitoring loop                      *)

MaxBatch == 2

MaxPolls == 2

Wallets == {"0xW1aaaaaaaa", "0xW2aaaaaaaa", "0xW3aaaaaaaa", "0xW4aaaaaaaa",
            "0xW5aaaaaaaa", "0xW6aaaaaaaa"}

Order(tx, signer, amountFilled, market_id, outcome, description, resolution, executedAt, tokenId, takerAmount, side) ==
    [transactionHash |-> tx, signer |-> signer, amountFilled |-> amountFilled,
     market_id |-> market_id, outcome |-> outcome, description |-> description,
     resolution |-> resolution, executedAt |-> executedAt, tokenId |-> tokenId,
     takerAmount |-> takerAmount, side |-> side]

\* The records the feed delivers to the loop: an amount that does not parse,
\* and two trades of one wallet on one market.
Trade(tx, amountFilled) ==
    Order(tx, "0xW1aaaaaaaa", amountFilled, 1, "Yes", "", TRUE, Some(StartTime - 10),
          None, None, None)

Feed == {Trade("T1", "abc"), Trade("T1", "150"), Trade("T2", "150.25")}

Batches(feed, n) == UNION {[1..k -> feed] : k \in 1..n}

\* what the market API answers to get_market_context during one iteration
ApiAnswers == {[yes |-> None, no |-> None], [yes |-> Some(3000), no |-> Some(7000)]}

\* the time that passes before an iteration that fetches nothing: the sleep
\* of the loop, or longer (a run of such iterations)
Delays == {CHECK_INTERVAL, 4000}

\* load_alerted_transactions: the hashes of the WHALE_BET alerts of the last
\* 7 days, alert_id.split('_')[0], except 'fallback'
load_alerted_transactions(alerts_table, t) ==
    {TxId(alerts_table[i].alert_id[1][1]) :
        i \in {j \in 1..Len(alerts_table) :
                 /\ alerts_table[j].type = "WHALE_BET"
                 /\ alerts_table[j].timestamp > t - 7 * 86400
                 /\ alerts_table[j].alert_id[1][1] /= ""
                 /\ alerts_table[j].alert_id[1][1] /= "fallback"}}

NoCall == [fn |-> "none"]

EmptyHist ==
    [admitted1 |-> {}, admitted2 |-> {}, whale1 |-> {}, whale2 |-> {},
     tracked1 |-> {}, tracked2 |-> {}, coord1 |-> {}, coord2 |-> {},
     created |-> <<>>]

NoLast == [new_orders |-> <<>>, whale_alerts |-> <<>>, threshold |-> WHALE_THRESHOLD]

\* TelegramPredictBot.__init__ on an empty database
BotInit ==
    /\ orders = {}
    /\ alerts = <<>>
    /\ whale_history = <<>>
    /\ market_volume = <<>>
    /\ tracked_table = {}
    /\ tracked_wallets = TRACK_SPECIFIC_WALLETS
    /\ alerted_transactions = load_alerted_transactions(<<>>, StartTime)
    /\ whale_threshold = WHALE_THRESHOLD
    /\ min_coordinated = MIN_COORDINATED_WALLETS
    /\ monitoring_active = TRUE
    /\ now = StartTime
    /\ pc = "sleep"
    /\ all_alerts = <<>>
    /\ sent = <<>>
    /\ last = NoLast
    /\ hist = EmptyHist
    /\ polls = 0

Init == BotInit /\ call = NoCall

Range(seq) == {seq[i] : i \in 1..Len(seq)}

\* history: the elements of `new` move from "once" to "twice"
Count1(once, new) == once \cup new

Count2(once, twice, new) == twice \cup (once \cap new)

\* the orders of a batch that went into a coordinated alert
CoordSources(batch, t, out) ==
    {o \in Range(SelectSeq2(batch, t)) :
        \E i \in 1..Len(out) : out[i].market_id = o.market_id /\ out[i].side = o.outcome}

\* the new orders that a whale alert of the iteration was built from, each
\* with the threshold of the iteration
WhaleSources(new, whale_alerts) ==
    {<<o, whale_threshold>> : o \in {o \in Range(new) : \E i \in 1..Len(whale_alerts) :
        /\ whale_alerts[i].alert_id[2] = o.signer
        /\ whale_alerts[i].alert_id[3] = o.amountFilled
        /\ whale_alerts[i].alert_id[1] =
             (IF o.transactionHash = "" THEN FallbackId(o) ELSE TxId(o.transactionHash))}}

\* history of the run: what was admitted and alerted on once, and twice, and
\* the alerts the detectors returned to the loop, in order
Recorded(h, new, whale_src, tracked_src, coord_src, returned) ==
    [admitted1 |-> Count1(h.admitted1, Range(new)),
     admitted2 |-> Count2(h.admitted1, h.admitted2, Range(new)),
     whale1 |-> Count1(h.whale1, whale_src),
     whale2 |-> Count2(h.whale1, h.whale2, whale_src),
     tracked1 |-> Count1(h.tracked1, tracked_src),
     tracked2 |-> Count2(h.tracked1, h.tracked2, tracked_src),
     coord1 |-> Count1(h.coord1, coord_src),
     coord2 |-> Count2(h.coord1, h.coord2, coord_src),
     created |-> h.created \o returned]

\* The end of an iteration: the lists of the four detectors are joined into
\* all_alerts; `if new_orders:` guards the detectors and the sends.
Collect(new, ledger, w, whale_alerts, c, tr, tracked_alerts, v, t, dbw) ==
    /\ now' = t
    /\ polls' = polls + 1
    /\ orders' = ledger
    /\ last' = [new_orders |-> new, whale_alerts |-> whale_alerts,
                threshold |-> whale_threshold]
    /\ hist' = Recorded(hist, new, WhaleSources(new, whale_alerts),
                        IF tr.raised THEN {}
                        ELSE {o \in Range(new) : o.signer \in tracked_wallets},
                        CoordSources(new, t, c.out),
                        IF new = <<>> THEN <<>>
                        ELSE whale_alerts \o c.out \o tracked_alerts \o v.out)
    /\ IF new = <<>>
       THEN UNCHANGED <<alerts, whale_history, alerted_transactions, market_volume,
                        all_alerts, pc>>
       ELSE /\ alerts' = SaveAlerts(SaveAlerts(SaveAlerts(w.alerts, c.out, dbw),
                                               tr.out, dbw), v.out, dbw)
            /\ whale_history' = w.history
            /\ alerted_transactions' = w.alerted
            /\ market_volume' = v.table
            /\ all_alerts' = whale_alerts \o c.out \o tracked_alerts \o v.out
            /\ pc' = IF whale_alerts \o c.out \o tracked_alerts \o v.out = <<>>
                     THEN "sleep" ELSE "send"
    /\ UNCHANGED <<tracked_table, tracked_wallets, whale_threshold, min_coordinated,
                   monitoring_active, sent>>

\* A mutant of Guarded: one try/except around the four detectors.
GuardedTogether(new, ledger, w, c, tr, v, t, dbw) ==
    IF w.raised \/ c.raised \/ tr.raised \/ v.raised
    THEN Collect(new, ledger, w, <<>>, [c EXCEPT !.out = <<>>], tr, <<>>,
                 [v EXCEPT !.out = <<>>], t, dbw)
    ELSE Collect(new, ledger, w, w.out, c, tr, tr.out, v, t, dbw)

\* each detector in its own try/except: one that raises contributes no alert
Guarded(new, ledger, w, c, tr, v, t, dbw) ==
    Collect(new, ledger, w, IF w.raised THEN <<>> ELSE w.out, c, tr,
            IF tr.raised THEN <<>> ELSE tr.out, v, t, dbw)

\* A mutant of Detect: the loop yields between the fetch and the detectors,
\* and the button whale_100 is handled before detect_whale_activity runs.
DetectAfterYield(new, ledger, t, api, dbw) ==
    Guarded(new, ledger,
            detect_whale_activity(new, alerts, whale_history, alerted_transactions,
                                  ledger, t, 100 * 100, api, dbw),
            detect_coordinated_activity(new, t),
            check_tracked_wallets(new, tracked_wallets, t),
            detect_volume_spikes(new, market_volume, t, dbw),
            t, dbw)

\* the four detectors on the new orders, in the order of the loop
Detect(new, ledger, t, api, dbw) ==
    Guarded(new, ledger,
            detect_whale_activity(new, alerts, whale_history, alerted_transactions,
                                  ledger, t, whale_threshold, api, dbw),
            detect_coordinated_activity(new, t),
            check_tracked_wallets(new, tracked_wallets, t),
            detect_volume_spikes(new, market_volume, t, dbw),
            t, dbw)

Fetched(got, t, api, dbw) == Detect(got.new_orders, got.ledger, t, api, dbw)

\* One iteration of monitoring_loop with monitoring active, from the fetch to
\* the end of the fourth detector: no await lies in between.
Iterate(all_orders, fetch_ok, api, dbw, d) ==
    Fetched(get_order_matches(fetch_ok, all_orders, orders, now + d, dbw), now + d, api, dbw)

\* an iteration whose fetch succeeds, one sleep after the last
PollOn(feed) ==
    /\ pc = "sleep" /\ monitoring_active /\ polls < MaxPolls
    /\ \E all_orders \in Batches(feed, MaxBatch), api \in ApiAnswers, dbw \in BOOLEAN :
          Iterate(all_orders, TRUE, api, dbw, CHECK_INTERVAL)
    /\ UNCHANGED call

Poll == PollOn(Feed)

\* A mutant of PollFails: the failed fetch ends the loop.
PollFailsStops ==
    /\ pc = "sleep" /\ monitoring_active /\ polls < MaxPolls
    /\ pc' = "stopped"
    /\ UNCHANGED <<orders, alerts, whale_history, market_volume, tracked_table,
                   tracked_wallets, alerted_transactions, whale_threshold,
                   min_coordinated, monitoring_active, now, all_alerts, sent,
                   last, hist, polls, call>>

\* an iteration whose fetch times out, cannot connect or is answered non-200
PollFails ==
    /\ pc = "sleep" /\ monitoring_active /\ polls < MaxPolls
    /\ \E d \in Delays : Iterate(<<>>, FALSE, [yes |-> None, no |-> None], TRUE, d)
    /\ UNCHANGED call

\* A mutant of PollPaused: the iteration does not look at the flag.
PollPausedFetches ==
    /\ pc = "sleep" /\ ~monitoring_active /\ polls < MaxPolls
    /\ \E all_orders \in Batches(Feed, MaxBatch), api \in ApiAnswers, dbw \in BOOLEAN :
          Iterate(all_orders, TRUE, api, dbw, CHECK_INTERVAL)
    /\ UNCHANGED call

\* an iteration that finds monitoring paused: it only sleeps
PollPaused ==
    /\ pc = "sleep" /\ ~monitoring_active /\ polls < MaxPolls
    /\ \E d \in Delays : now' = now + d
    /\ polls' = polls + 1
    /\ UNCHANGED <<orders, alerts, whale_history, market_volume, tracked_table,
                   tracked_wallets, alerted_transactions, whale_threshold,
                   min_coordinated, monitoring_active, pc, all_alerts, sent,
                   last, hist, call>>

\* A mutant of Send: the alert stays in the list and is handed over again.
SendAgain ==
    /\ pc = "send"
    /\ Len(sent) < 3
    /\ sent' = Append(sent, Head(all_alerts))
    /\ UNCHANGED <<orders, alerts, whale_history, market_volume, tracked_table,
                   tracked_wallets, alerted_transactions, whale_threshold,
                   min_coordinated, monitoring_active, now, pc, all_alerts, last,
                   hist, polls, call>>

\* `await self.send_telegram_alert(alert, app)` for the next alert of the
\* batch; the send may fail, the exception is caught and the loop goes on to
\* the next alert either way
Send ==
    /\ pc = "send"
    /\ sent' = Append(sent, Head(all_alerts))
    /\ all_alerts' = Tail(all_alerts)
    /\ pc' = IF Tail(all_alerts) = <<>> THEN "sleep" ELSE "send"
    /\ UNCHANGED <<orders, alerts, whale_history, market_volume, tracked_table,
                   tracked_wallets, alerted_transactions, whale_threshold,
                   min_coordinated, monitoring_active, now, last, hist, polls, call>>

----------------------------------------------------------------------------
(* Command handlers.  They run while the loop is suspended at an await: the *)
(* sleep between iterations, or a send.                                     *)

\* float(context.args[0]) in cents; None when it raises ValueError
ParseWhaleArg(arg) ==
    CASE arg = "0" -> Some(0)
      [] arg = "100" -> Some(10000)
      [] arg = "150.25" -> Some(15025)
      [] arg = "200000" -> Some(20000000)
      [] arg = "nan" -> Some(NaN)
      [] OTHER -> None

WhaleArgs == {"abc", "0", "150.25", "200000", "nan"}

\* int(context.args[0]); None when it raises ValueError
ParseCoordArg(arg) ==
    CASE arg = "1" -> Some(1)
      [] arg = "3" -> Some(3)
      [] arg = "21" -> Some(21)
      [] OTHER -> None

CoordArgs == {"abc", "1", "3", "21"}

\* the settings buttons of cmd_settings pressed in the model
Buttons == {"whale_100", "coord_3"}

WhaleButtons == {"whale_100"}

CoordButtons == {"coord_3"}

\* int(data.split('_')[1])
ButtonValue(data) == IF data = "whale_100" THEN 100 ELSE 3

\* `not wallet.startswith('0x') or len(wallet) < 10`
ValidWallet(wallet) == wallet \in Wallets

TrackArgs == {"0xW1aaaaaaaa", "W1"}

settingsUnchanged ==
    UNCHANGED <<orders, alerts, whale_history, market_volume, alerted_transactions,
                now, pc, all_alerts, sent, last, hist, polls, call>>

cmd_setwhale ==
    \E arg \in WhaleArgs :
        LET amount == ParseWhaleArg(arg)
        IN  /\ whale_threshold' =
                  IF amount = None THEN whale_threshold
                  ELSE IF amount[1] /= NaN /\ amount[1] < 1 THEN whale_threshold
                  ELSE IF amount[1] /= NaN /\ amount[1] > 10000000 THEN whale_threshold
                  ELSE amount[1]
            /\ settingsUnchanged
            /\ UNCHANGED <<min_coordinated, monitoring_active, tracked_wallets,
                           tracked_table>>

cmd_setcoord ==
    \E arg \in CoordArgs :
        LET count == ParseCoordArg(arg)
        IN  /\ min_coordinated' =
                  IF count = None THEN min_coordinated
                  ELSE IF count[1] < 2 THEN min_coordinated
                  ELSE IF count[1] > 20 THEN min_coordinated
                  ELSE count[1]
            /\ settingsUnchanged
            /\ UNCHANGED <<whale_threshold, monitoring_active, tracked_wallets,
                           tracked_table>>

button_callback(buttons) ==
    \E data \in buttons :
        /\ IF data = "whale_100"
           THEN whale_threshold' = ButtonValue(data) * 100 /\ UNCHANGED min_coordinated
           ELSE min_coordinated' = ButtonValue(data) /\ UNCHANGED whale_threshold
        /\ settingsUnchanged
        /\ UNCHANGED <<monitoring_active, tracked_wallets, tracked_table>>

cmd_pause ==
    /\ monitoring_active' = FALSE
    /\ settingsUnchanged
    /\ UNCHANGED <<whale_threshold, min_coordinated, tracked_wallets, tracked_table>>

cmd_resume ==
    /\ monitoring_active' = TRUE
    /\ settingsUnchanged
    /\ UNCHANGED <<whale_threshold, min_coordinated, tracked_wallets, tracked_table>>

\* cmd_track: the wallet joins the set in memory before the registry write
cmd_track ==
    \E wallet \in TrackArgs, dbw \in BOOLEAN :
        /\ IF ValidWallet(wallet)
           THEN /\ tracked_wallets' = tracked_wallets \cup {wallet}
                /\ tracked_table' = IF dbw THEN tracked_table \cup {wallet}
                                    ELSE tracked_table
           ELSE UNCHANGED <<tracked_wallets, tracked_table>>
        /\ settingsUnchanged
        /\ UNCHANGED <<whale_threshold, min_coordinated, monitoring_active>>

\* cmd_untrack: the wallet leaves the set in memory before the DELETE
cmd_untrack ==
    \E wallet \in TrackArgs, dbw \in BOOLEAN :
        /\ IF wallet \in tracked_wallets
           THEN /\ tracked_wallets' = tracked_wallets \ {wallet}
                /\ tracked_table' = IF dbw THEN tracked_table \ {wallet}
                                    ELSE tracked_table
           ELSE UNCHANGED <<tracked_wallets, tracked_table>>
        /\ settingsUnchanged
        /\ UNCHANGED <<whale_threshold, min_coordinated, monitoring_active>>

\* The process stops and starts again: __init__ on the database as it is.
\* What was in memory is lost, also the alerts of a batch not yet sent.
Restart ==
    /\ tracked_wallets' = TRACK_SPECIFIC_WALLETS
    /\ alerted_transactions' = load_alerted_transactions(alerts, now)
    /\ whale_threshold' = WHALE_THRESHOLD
    /\ min_coordinated' = MIN_COORDINATED_WALLETS
    /\ monitoring_active' = TRUE
    /\ pc' = "sleep"
    /\ all_alerts' = <<>>
    /\ UNCHANGED <<orders, alerts, whale_history, market_volume, tracked_table,
                   now, sent, last, hist, polls, call>>

PressWhale == button_callback(WhaleButtons)

PressCoord == button_callback(CoordButtons)

\* The monitor with the commands that set the whale threshold.
Next ==
    \/ Poll
    \/ PollFails
    \/ Send
    \/ cmd_setwhale
    \/ PressWhale
    \/ Restart

Spec == Init /\ [][Next]_vars

\* The monitor with the commands of the tracked-wallet registry.
NextTrack ==
    \/ Poll
    \/ PollFails
    \/ Send
    \/ cmd_track
    \/ cmd_untrack
    \/ Restart

SpecTrack == Init /\ [][NextTrack]_vars

\* The monitor with pause and resume and the coordination setting.
NextSettings ==
    \/ Poll
    \/ PollFails
    \/ PollPaused
    \/ Send
    \/ cmd_pause
    \/ cmd_resume
    \/ cmd_setcoord
    \/ PressCoord
    \/ Restart

SpecSettings == Init /\ [][NextSettings]_vars

----------------------------------------------------------------------------
(* calculate_entry_quality on its own: the arguments are drawn at the       *)
(* start, the action applies the function.                                  *)

ScoreCalls ==
    [fn : {"args"},
     side : {"Yes", "No"},
     amount : {5000, 10000, 20000, 50000, 100000},
     whale_win_rate : {0, 60, 70, 80},
     current_odds : {None, Some(3000), Some(5000), Some(6000), Some(7000), Some(9000),
                     Some(550000)},
     market_volume : {0, 200000, 500000, 1000000, 2000000},
     days_to_close : {None, Some(1), Some(3), Some(7), Some(14), Some(15)}]

InitScore == BotInit /\ call \in ScoreCalls

CallScore ==
    /\ call.fn = "args"
    /\ call' = [fn |-> "calculate_entry_quality", args |-> call,
                result |-> calculate_entry_quality(call.side, call.amount,
                                                   call.whale_win_rate, call.current_odds,
                                                   call.market_volume, call.days_to_close)]
    /\ UNCHANGED botVars

NextScore == CallScore

SpecScore == InitScore /\ [][NextScore]_vars

----------------------------------------------------------------------------
(* detect_coordinated_activity on its own                                   *)

MaxGroup == 6

WalletOf(i) == <<"0xW1aaaaaaaa", "0xW2aaaaaaaa", "0xW3aaaaaaaa", "0xW4aaaaaaaa",
                 "0xW5aaaaaaaa", "0xW6aaaaaaaa", "0xW7aaaaaaaa">>[i]

\* A batch of n bets on market 1 by u wallets in turn: the first of `first`
\* dollars made `age` seconds ago, the others of `rest` dollars made 10
\* seconds ago; the last one on No when `no` is set.
CoordBatch(c) ==
    [i \in 1..c.n |->
        Order("", WalletOf(((i - 1) % c.u) + 1),
              IF i = 1 THEN c.first ELSE c.rest, 1,
              IF c.no /\ i = c.n THEN "No" ELSE "Yes",
              c.description, FALSE,
              Some(now - (IF i = 1 THEN c.age ELSE 10)), None, None, None)]

CoordCalls ==
    {c \in [fn : {"args"}, n : 1..MaxGroup, u : 1..MaxGroup,
            first : {"99", "100", "120", "150"}, rest : {"99", "100", "120", "150"},
            no : BOOLEAN, age : {60, COORDINATION_WINDOW, COORDINATION_WINDOW + 1},
            description : {"", "Resolves today", "Resolves by 2027"}] : c.u <= c.n}

InitCoord == BotInit /\ call \in CoordCalls

\* the function and the save_alert it calls for each alert it returns
CallCoord ==
    /\ call.fn = "args"
    /\ call' = [fn |-> "detect_coordinated_activity", args |-> call,
                batch |-> CoordBatch(call),
                result |-> detect_coordinated_activity(CoordBatch(call), now).out,
                saved |-> SaveAlerts(alerts,
                                     detect_coordinated_activity(CoordBatch(call), now).out,
                                     TRUE)]
    /\ UNCHANGED botVars

NextCoord == CallCoord

SpecCoord == InitCoord /\ [][NextCoord]_vars

----------------------------------------------------------------------------
(* detect_volume_spikes on its own                                          *)

Snapshot(market_id, volume, timestamp) ==
    [market_id |-> market_id, volume |-> volume, trade_count |-> 1,
     timestamp |-> timestamp]

SnapshotVolumes == {0, 50000, 100000}

\* market_volume tables of token 1: empty, one snapshot of the last hour or
\* of two days ago, or the snapshots of the last two hours
SnapshotTables ==
    {<<>>}
    \cup {<<Snapshot(Some(1), v, HourBucket(StartTime) - 3600)>> : v \in SnapshotVolumes}
    \cup {<<Snapshot(Some(1), v, HourBucket(StartTime) - 48 * 3600)>> : v \in SnapshotVolumes}
    \cup {<<Snapshot(Some(1), v, HourBucket(StartTime) - 7200),
            Snapshot(Some(1), w, HourBucket(StartTime) - 3600)>> :
             v \in SnapshotVolumes, w \in SnapshotVolumes}

SpikeFeed ==
    {Order("", "0xW1aaaaaaaa", "0", 1, "Yes", "", FALSE, Some(StartTime - 10),
           Some(token), takerAmount, Some(side)) :
        token \in {1, 2}, takerAmount \in {None, Some("150"), Some("1000"), Some("3000"),
                                           Some("5000")},
        side \in {0, 1}}

SpikeCalls == [fn : {"args"}, table : SnapshotTables, batch : Batches(SpikeFeed, MaxBatch)]

InitSpike == BotInit /\ call \in SpikeCalls

CallSpike ==
    /\ call.fn = "args"
    /\ call' = [fn |-> "detect_volume_spikes", args |-> call,
                result |-> detect_volume_spikes(call.batch, call.table, now, TRUE).out]
    /\ UNCHANGED botVars

NextSpike == CallSpike

SpecSpike == InitSpike /\ [][NextSpike]_vars

----------------------------------------------------------------------------
(* The scorer and the two batch detectors                                   *)

\* C4: detect_coordinated_activity returns and saves no alert for a side of
\* the market whose bets inside the window come from fewer than 5 distinct
\* wallets or add up to less than $500.
C4_GatesAreNecessary ==
    call.fn = "detect_coordinated_activity" =>
        \A side \in {"Yes", "No"} :
            LET inside == {i \in 1..Len(call.batch) :
                              /\ call.batch[i].outcome = side
                              /\ now - call.batch[i].executedAt[1] <= COORDINATION_WINDOW}
                wallets == {call.batch[i].signer : i \in inside}
                total == SumSeq([i \in 1..Len(call.batch) |->
                                   IF i \in inside
                                   THEN ParseAmount(call.batch[i].amountFilled)[1] ELSE 0])
            IN  (Cardinality(wallets) < 5 \/ total < 50000) =>
                    /\ \A i \in 1..Len(call.result) : call.result[i].side /= side
                    /\ \A i \in 1..Len(call.saved) : call.saved[i].side /= side

\* four wallets with $600 on Yes of a market that resolves today: no alert
C4_FourWalletsSixHundred ==
    /\ call.fn = "detect_coordinated_activity"
    /\ call.args.n = 4 /\ call.args.u = 4 /\ ~call.args.no
    /\ call.args.first = "150" /\ call.args.rest = "150" /\ call.args.age = 60
    /\ call.args.description = "Resolves today"
    /\ call.result = <<>> /\ call.saved = <<>>

\* the scenario of C5: the bets on Yes are five, by five wallets, of $120
\* each, at most 60 seconds old, on a market that resolves today
FiveWalletsScenario ==
    /\ call.fn = "detect_coordinated_activity"
    /\ call.args.description = "Resolves today"
    /\ LET yes == {i \in 1..Len(call.batch) : call.batch[i].outcome = "Yes"}
       IN  /\ Cardinality(yes) = 5
           /\ Cardinality({call.batch[i].signer : i \in yes}) = 5
           /\ \A i \in yes : /\ call.batch[i].amountFilled = "120"
                             /\ now - call.batch[i].executedAt[1] <= 60

\* C5: in that scenario detect_coordinated_activity returns exactly one
\* alert, for market 1, side Yes, 5 wallets and a total of $600.
C5_FiveWalletsAlertOnce ==
    FiveWalletsScenario =>
        /\ Len(call.result) = 1
        /\ call.result[1].type = "COORDINATED_BETTING"
        /\ call.result[1].market_id = 1
        /\ call.result[1].side = "Yes"
        /\ call.result[1].wallet_count = 5
        /\ call.result[1].total_amount = 60000

\* the scenario has been run, with a sixth bet on No in the batch
C5_ScenarioRan == FiveWalletsScenario /\ Len(call.batch) = 6 /\ call.result /= <<>>

\* the volume of the batch on a token
BatchVolume(batch, token) ==
    SumSeq([i \in 1..Len(batch) |->
              IF batch[i].tokenId = token /\ batch[i].takerAmount /= None
              THEN ParseAmount(batch[i].takerAmount[1])[1] ELSE 0])

\* the snapshots of the token of the last 24 hours
Stored(table, token) ==
    {i \in 1..Len(table) : table[i].market_id = token /\ table[i].timestamp > now - 86400}

StoredSum(table, token) ==
    SumSeq([i \in 1..Len(table) |-> IF i \in Stored(table, token) THEN table[i].volume ELSE 0])

\* C6: detect_volume_spikes returns an alert for a token of the batch if and
\* only if the average of the token's stored snapshots is above 0 and the
\* volume of the batch is at least 3 times that average.
C6_SpikeRule ==
    call.fn = "detect_volume_spikes" =>
        \A token \in {call.args.batch[i].tokenId : i \in 1..Len(call.args.batch)} :
            (\E i \in 1..Len(call.result) : call.result[i].market_id = token)
            <=> /\ Stored(call.args.table, token) /= {}
                /\ StoredSum(call.args.table, token) > 0
                /\ BatchVolume(call.args.batch, token)
                       * Cardinality(Stored(call.args.table, token))
                   >= 3 * StoredSum(call.args.table, token)

\* an average of $1000 and a batch of $3000: the ratio is exactly 3 and the
\* alert is returned
C6_BoundaryAlerts ==
    /\ call.fn = "detect_volume_spikes"
    /\ StoredSum(call.args.table, Some(1))
         = 100000 * Cardinality(Stored(call.args.table, Some(1)))
    /\ BatchVolume(call.args.batch, Some(1)) = 300000
    /\ \E i \in 1..Len(call.result) : call.result[i].market_id = Some(1)

\* C7: the score calculate_entry_quality returns lies within 0 and 100.
C7_ScoreInRange ==
    call.fn = "calculate_entry_quality" =>
        call.result.score >= 0 /\ call.result.score <= 100

\* a call whose five factors add up to less than 0 and whose score is 0
C7_ClampedAtZero ==
    /\ call.fn = "calculate_entry_quality"
    /\ BetSizeFactor(call.args.amount).pts + WinRateFactor(call.args.whale_win_rate).pts
         + EntryPriceFactor(call.args.side, call.args.current_odds).pts
         + LiquidityFactor(call.args.market_volume).pts
         + TimeFactor(call.args.days_to_close).pts < 0
    /\ call.result.score = 0

----------------------------------------------------------------------------
(* Admission and replay                                                     *)

\* C1: over polls and restarts, with the feed delivering records again,
\* get_order_matches returns no trade as new in more than one poll.
C1_AdmittedInOnePoll == hist.admitted2 = {}

\* C2: no trade admitted twice has led to two Whale alerts, two Coordinated
\* alerts or two Tracked-wallet alerts.
C2_NoSecondAlert == hist.whale2 = {} /\ hist.tracked2 = {} /\ hist.coord2 = {}

\* C3: the trade of 150 by W on M with hash T1 under a threshold of 100, once
\* it has led to a Whale alert, leads to no further Whale alert when the
\* identical record is delivered in a later poll.
C3_ReplayAddsNoAlert == <<Trade("T1", "150"), 10000>> \notin hist.whale2

----------------------------------------------------------------------------
(* The whale threshold                                                      *)

\* C9: every Whale alert of an iteration is for an amount at or above the
\* threshold that was set when the iteration ran, whether it came from the
\* configuration, from /setwhale or from a settings button.
C9_AlertsMeetThreshold ==
    \A i \in 1..Len(last.whale_alerts) : last.whale_alerts[i].amount >= last.threshold

\* an iteration under a threshold set at run time alerted on an amount equal
\* to that threshold
C9_EqualQualifies ==
    /\ last.threshold /= WHALE_THRESHOLD
    /\ whale_threshold = last.threshold
    /\ \E i \in 1..Len(last.whale_alerts) : last.whale_alerts[i].amount = last.threshold

\* trades that differ in nothing but the amount
Candidates == {Trade("T1", a) : a \in {"150", "150.25", "2000"}}

Amount(order) == ParseAmount(order.amountFilled)[1]

\* detect_whale_activity on the one order in the present state, the order
\* already in the ledger as get_order_matches leaves it
WouldAlert(order, api) ==
    detect_whale_activity(<<order>>, alerts, whale_history, alerted_transactions,
                          save_order(order, orders, now, TRUE), now, whale_threshold,
                          api, TRUE).out /= <<>>

ScoreOf(order, api) ==
    EntryAnalysis(order, Amount(order), save_order(order, orders, now, TRUE),
                  whale_history, now, api).score

----------------------------------------------------------------------------
(* The alert store under a feed of two trades that differ in the           *)
(* transaction hash only.                                                   *)

\* two trades of one wallet on one market with the same amount, and the
\* first of them once more with an amount that does not parse
StoreFeed == {Trade("T1", "150"), Trade("T2", "150"), Trade("T1", "abc")}

PollStore == PollOn(StoreFeed)

NextStore ==
    \/ PollStore
    \/ PollFails
    \/ Send
    \/ cmd_track
    \/ Restart

SpecStore == Init /\ [][NextStore]_vars

\* the tuple of a row of the alert store: kind, market, wallet if the kind
\* has one, amount, and the hour of its timestamp
AlertKey(a) ==
    CASE a.type = "WHALE_BET" ->
           <<a.type, a.market_id, a.wallet, a.amount, HourBucket(a.timestamp)>>
      [] a.type = "TRACKED_WALLET" ->
           <<a.type, a.market_id, a.wallet, a.amount, HourBucket(a.timestamp)>>
      [] a.type = "COORDINATED_BETTING" ->
           <<a.type, a.market_id, NoWallet, a.total_amount, HourBucket(a.timestamp)>>
      [] OTHER ->
           <<a.type, a.market_id, NoWallet, a.current_volume, HourBucket(a.timestamp)>>

\* C11: no two rows of the alert store have the same (kind, market_id,
\* wallet, amount, hour) tuple.
C11_OneRowPerKey ==
    \A i \in 1..Len(alerts), j \in 1..Len(alerts) :
        i < j => AlertKey(alerts[i]) /= AlertKey(alerts[j])

----------------------------------------------------------------------------
(* The notifier                                                             *)

RECURSIVE IsSubseq(_, _)
\* s is c with some elements left out
IsSubseq(s, c) ==
    IF s = <<>> THEN TRUE
    ELSE IF c = <<>> THEN FALSE
    ELSE IF Head(s) = Head(c) THEN IsSubseq(Tail(s), Tail(c))
    ELSE IsSubseq(s, Tail(c))

\* C12: the alerts handed to send_telegram_alert are, in order, alerts the
\* detectors returned, each returned alert handed over at most once.
C12_HandedOverAtMostOnce == IsSubseq(sent, hist.created)

\* two alerts were handed over and the loop sleeps, while a restart between
\* two sends has dropped an alert that was never handed over
C12_SentAcrossRestart ==
    /\ Len(sent) >= 2
    /\ pc = "sleep"
    /\ Len(hist.created) > Len(sent)

----------------------------------------------------------------------------
(* The tracked-wallet registry                                              *)

\* C13: a restart leaves every wallet of the registry (table tracked_wallets)
\* in the set check_tracked_wallets reads.
C13_RegistrySurvivesRestart ==
    [][Restart => tracked_table \subseteq tracked_wallets']_vars

----------------------------------------------------------------------------
(* The alerted-transaction set and the alert store                          *)

\* detect_whale_activity on the one order in the present state, with the
\* given set in the place of self.alerted_transactions
WouldAlertWith(order, api, alerted) ==
    detect_whale_activity(<<order>>, alerts, whale_history, alerted,
                          save_order(order, orders, now, TRUE), now,
                          whale_threshold, api, TRUE).out /= <<>>

\* C14: for every trade, the detector decides with the set rebuilt from the
\* alert store (what a restart now would leave) as it decides with the set
\* in memory.
C14_RebuiltSetDecidesAlike ==
    \A order \in Candidates, api \in ApiAnswers :
        WouldAlertWith(order, api, alerted_transactions)
            <=> WouldAlertWith(order, api, load_alerted_transactions(alerts, now))

----------------------------------------------------------------------------
(* Pause and resume                                                         *)

\* what an iteration, a detector or a send can change
Work == <<orders, alerts, whale_history, market_volume, alerted_transactions,
          all_alerts, sent, pc>>

\* C15: an iteration that starts with the flag false changes nothing but the
\* clock; /pause and /resume leave the batch in flight as it is;
\* and the next alert of a batch in flight can be sent whatever the flag is.
C15_PauseAtIterationTop ==
    /\ [][(polls' /= polls /\ ~monitoring_active) => UNCHANGED Work]_vars
    /\ [][((cmd_pause \/ cmd_resume) /\ pc = "send") => UNCHANGED Work]_vars
    /\ [](pc = "send" => ENABLED Send)

\* the first batch is in flight, one of its alerts has been sent, and the
\* flag is false: /pause arrived after the iteration started
C15_PausedMidBatch ==
    /\ ~monitoring_active
    /\ pc = "send"
    /\ polls = 1
    /\ sent /= <<>>

----------------------------------------------------------------------------
(* The fetch of get_order_matches and what the upstream answers             *)

\* what requests.get gives: a timeout, a connection error, or an answer with
\* a status and, in its JSON body, the list `data`
Responses ==
    {[kind |-> k, status |-> 0, data |-> <<>>] : k \in {"timeout", "connection"}}
        \cup {[kind |-> "answer", status |-> st, data |-> b] :
                st \in {200, 201, 404, 500}, b \in Batches(Feed, MaxBatch)}

\* response.raise_for_status(): HTTPError for a 4xx or 5xx status
RaisesForStatus(status) == status >= 400 /\ status < 600

\* the try block of get_order_matches reaches the filter loop
FetchReaches(response) ==
    response.kind = "answer" /\ ~RaisesForStatus(response.status)

\* an iteration of the loop on what the upstream answered; `call` keeps what
\* the upstream, the market API and the database did in this iteration
PollWith(responses) ==
    /\ pc = "sleep" /\ monitoring_active /\ polls < MaxPolls
    /\ \E response \in responses, api \in ApiAnswers, dbw \in BOOLEAN :
          /\ Iterate(response.data, FetchReaches(response), api, dbw, CHECK_INTERVAL)
          /\ call' = [fn |-> "get_order_matches", kind |-> response.kind,
                      status |-> response.status, api |-> api, dbw |-> dbw]

PollAnswer == PollWith(Responses)

NextFetch ==
    \/ PollAnswer
    \/ Send
    \/ cmd_track

SpecFetch == Init /\ [][NextFetch]_vars

\* the fetch of the last iteration timed out, could not connect, or was
\* answered with a status other than 200
TransportError(c) == c.fn = "get_order_matches" /\ ~(c.kind = "answer" /\ c.status = 200)

\* C16: an iteration whose fetch times out, cannot connect or is answered
\* with a status other than 200 gets the empty batch, writes nothing to the
\* ledger, creates no alert, and leaves the loop at its sleep.
C16_TransportErrorIsEmptyCycle ==
    [][(polls' /= polls /\ TransportError(call'))
          => /\ last'.new_orders = <<>>
             /\ UNCHANGED <<orders, alerts, whale_history, market_volume,
                            alerted_transactions, all_alerts, sent>>
             /\ pc' = "sleep" /\ monitoring_active']_vars

\* C16 for the statuses raise_for_status raises on: a timeout, a connection
\* error and a 4xx or 5xx answer.
C16_RaisedErrorIsEmptyCycle ==
    [][(polls' /= polls /\ TransportError(call') /\ ~FetchReaches(call'))
          => /\ last'.new_orders = <<>>
             /\ UNCHANGED <<orders, alerts, whale_history, market_volume,
                            alerted_transactions, all_alerts, sent>>
             /\ pc' = "sleep" /\ monitoring_active']_vars

\* an iteration has fetched trades into the ledger, and the fetch of the
\* iteration after it was answered 500
C16_ErrorAfterTrades ==
    /\ call.fn = "get_order_matches" /\ call.kind = "answer" /\ call.status = 500
    /\ orders /= {}
    /\ polls = 2

----------------------------------------------------------------------------
(* Malformed records                                                        *)

\* the records of a batch whose amount parses
WellFormed(batch) == SelectSeq(batch, LAMBDA o : ParseAmount(o.amountFilled) /= None)

\* C17: the Whale alerts an iteration hands to the notifier are the ones
\* detect_whale_activity returns for the new orders of the iteration without
\* the malformed ones.
C17_MalformedRecordSkipped ==
    [][polls' /= polls =>
          last'.whale_alerts =
              detect_whale_activity(WellFormed(last'.new_orders), alerts, whale_history,
                                    alerted_transactions, orders', now',
                                    whale_threshold, call'.api, call'.dbw).out]_vars

----------------------------------------------------------------------------
(* A detector that raises                                                   *)

\* a trade of the first wallet, a record of another wallet whose amount does
\* not parse, and a trade of the first wallet whose takerAmount does not parse
IsolationFeed ==
    {Trade("T1", "150"),
     Order("T3", "0xW2aaaaaaaa", "abc", 1, "Yes", "", TRUE, Some(StartTime - 10),
           None, None, None),
     Order("T4", "0xW1aaaaaaaa", "150", 1, "Yes", "", TRUE, Some(StartTime - 10),
           None, Some("abc"), None)}

IsolationResponses ==
    {[kind |-> "answer", status |-> 200, data |-> b] : b \in Batches(IsolationFeed, MaxBatch)}

PollIsolation == PollWith(IsolationResponses)

NextIsolation ==
    \/ PollIsolation
    \/ Send
    \/ cmd_track

SpecIsolation == Init /\ [][NextIsolation]_vars

\* what the loop keeps of a detector's run
Kept(r) == IF r.raised THEN <<>> ELSE r.out

\* C18: the list the loop sends after an iteration holds, for each of the
\* four detectors that did not raise on the batch, the alerts it returned,
\* whether or not another detector raised; and the list is sent.
C18_DetectorsIsolated ==
    /\ [][(polls' /= polls /\ last'.new_orders /= <<>>) =>
             all_alerts' =
                 Kept(detect_whale_activity(last'.new_orders, alerts, whale_history,
                                            alerted_transactions, orders', now',
                                            whale_threshold, call'.api, call'.dbw))
                 \o Kept(detect_coordinated_activity(last'.new_orders, now'))
                 \o Kept(check_tracked_wallets(last'.new_orders, tracked_wallets, now'))
                 \o Kept(detect_volume_spikes(last'.new_orders, market_volume, now',
                                              call'.dbw))]_vars
    /\ [](all_alerts /= <<>> => ENABLED Send)

\* detect_whale_activity raised on a record of the batch, and the alert of
\* check_tracked_wallets for another record of the batch is being sent
C18_TrackedSentThoughWhaleRaised ==
    /\ pc = "send"
    /\ WellFormed(last.new_orders) /= last.new_orders
    /\ last.whale_alerts = <<>>
    /\ \E i \in 1..Len(all_alerts) : all_alerts[i].type = "TRACKED_WALLET"

----------------------------------------------------------------------------
(* The coordination minimum set at run time                                 *)

\* groups of n bets of $150 on Yes by u wallets, all 60 seconds old
CoordSettingCalls ==
    {c \in CoordCalls : /\ c.first = "150" /\ c.rest = "150" /\ ~c.no /\ c.age = 60
                        /\ c.description \in {"Resolves today", "Resolves by 2027"}}

InitCoordSetting == BotInit /\ call \in CoordSettingCalls

NextCoordSetting ==
    \/ CallCoord
    \/ cmd_setcoord
    \/ PressCoord

SpecCoordSetting == InitCoordSetting /\ [][NextCoordSetting]_vars

\* C19: a group that meets the amount floor and the fast-resolving test
\* alerts exactly when its distinct wallets are at least the minimum that
\* /setcoord or a settings button last set.
C19_MinimumInForce ==
    [][(call.fn = "args" /\ call'.fn = "detect_coordinated_activity"
            /\ EnoughAmount(15000 * call.n) /\ CloseSoon(call.description))
          => (call'.result /= <<>> <=> call.u >= min_coordinated)]_vars

----------------------------------------------------------------------------
(* The loop goes on                                                         *)

\* the feed of one market: a trade whose amount does not parse, and a whale
LiveFeed == {Trade("T1", "abc"), Trade("T1", "150")}

\* an iteration whose fetch returns one record of LiveFeed
PollLive ==
    /\ pc = "sleep" /\ monitoring_active /\ polls < MaxPolls
    /\ \E order \in LiveFeed, api \in ApiAnswers, dbw \in BOOLEAN :
          Iterate(<<order>>, TRUE, api, dbw, CHECK_INTERVAL)
    /\ UNCHANGED call

\* a step of monitoring_loop: an iteration up to its first await, or a send
LoopStep == PollLive \/ PollFails \/ Send

NextLive ==
    \/ PollLive
    \/ PollFails
    \/ Send
    \/ Restart

\* The event loop resumes the task of monitoring_loop when its sleep or its
\* send is over: a step of the loop that stays possible is taken.
SpecLive == Init /\ [][NextLive]_vars /\ WF_vars(LoopStep)

\* C20: whatever the iterations so far raised, the loop starts another
\* iteration (as long as the model counts iterations).
C20_LoopGoesOn == \A k \in 0..(MaxPolls - 1) : (polls = k) ~> (polls = k + 1)

\* the record whose amount does not parse was in the batch of two iterations:
\* a detector raised in the first of them and the loop ran the second
C20_PolledAfterFailure ==
    /\ polls >= 2
    /\ Trade("T1", "abc") \in hist.admitted2

----------------------------------------------------------------------------
(* Trades without a transaction hash                                        *)

\* an iteration on a batch of the feed, whose fetch is answered 200; `call`
\* keeps the list the upstream delivered and what the market API and the
\* database did in this iteration
PollTrades(feed) ==
    /\ pc = "sleep" /\ monitoring_active /\ polls < MaxPolls
    /\ \E all_orders \in Batches(feed, MaxBatch), api \in ApiAnswers, dbw \in BOOLEAN :
          /\ Iterate(all_orders, TRUE, api, dbw, CHECK_INTERVAL)
          /\ call' = [fn |-> "get_order_matches", kind |-> "answer", status |-> 200,
                      data |-> all_orders, api |-> api, dbw |-> dbw]

\* a trade of $150 by the first wallet that carries no transactionHash
Hashless(market_id, executedAt) ==
    Order("", "0xW1aaaaaaaa", "150", market_id, "Yes", "", TRUE, executedAt, None, None, None)

\* three such trades: two markets, and two times on the first market
IdentityFeed ==
    {Hashless(1, Some(StartTime - 10)), Hashless(2, Some(StartTime - 10)),
     Hashless(1, Some(StartTime - 20))}

PollIdentity == PollTrades(IdentityFeed)

NextIdentity ==
    \/ PollIdentity
    \/ PollFails
    \/ Send
    \/ Restart

SpecIdentity == Init /\ [][NextIdentity]_vars

\* C21: of trades without a transaction hash, of one wallet and amount, that
\* differ in the market or in executedAt, each one is returned as new by the
\* iteration in which the feed delivers it, unless an earlier iteration has
\* returned it already.
C21_HashlessTradesAdmitted ==
    [][polls' /= polls /\ call'.fn = "get_order_matches" =>
          \A i \in 1..Len(call'.data) :
              call'.data[i] \notin hist.admitted1 =>
                  \E j \in 1..Len(last'.new_orders) : last'.new_orders[j] = call'.data[i]]_vars

----------------------------------------------------------------------------
(* The secondary duplicate check of the Whale detector                      *)

\* trades of the first wallet on market 1: $150.25 executed 10 seconds and
\* two hours before the start, $150, and $0.05 (below the threshold)
DedupFeed ==
    {Trade("T1", "150.25"), Trade("T2", "150"), Trade("T4", "0.05"),
     Order("T3", "0xW1aaaaaaaa", "150.25", 1, "Yes", "", TRUE, Some(StartTime - 7200),
           None, None, None)}

PollDedup == PollTrades(DedupFeed)

NextDedup ==
    \/ PollDedup
    \/ PollFails
    \/ Send
    \/ Restart

SpecDedup == Init /\ [][NextDedup]_vars

\* candidates of the same wallet and market under a transaction hash of
\* their own
DedupCandidates == {Trade("T9", a) : a \in {"150.25", "150", "50.25"}}

\* the row is a Whale alert for the wallet, market and amount of the order
SameTriple(row, order) ==
    /\ row.type = "WHALE_BET"
    /\ row.market_id = order.market_id
    /\ row.wallet = order.signer
    /\ row.amount = Amount(order)

\* C22: the secondary check rejects a candidate when the iteration that has
\* just run stored a Whale alert for its wallet, market and amount, and it
\* rejects no candidate for whose wallet, market and amount the store holds
\* no Whale alert.
C22_SecondaryCheckByTriple ==
    \A o \in DedupCandidates :
        /\ (\E i \in 1..Len(alerts), j \in 1..Len(last.whale_alerts) :
               SameTriple(alerts[i], o) /\ alerts[i] = last.whale_alerts[j])
             => SecondaryDuplicate(alerts, o.market_id, o.signer, Amount(o), now)
        /\ SecondaryDuplicate(alerts, o.market_id, o.signer, Amount(o), now)
             => \E i \in 1..Len(alerts) : SameTriple(alerts[i], o)

----------------------------------------------------------------------------
(* The entry analysis of a whale bet, from the odds of the market API       *)

\* a bet on either side, and the Yes price the market API answers (the No
\* price is the rest to 1)
EntryCalls ==
    [fn : {"args"}, side : {"Yes", "No"},
     amountFilled : {"100", "150", "1000", "5000"},
     yes : {1000, 2500, 3000, 3900, 4000, 6000, 6100, 7000, 7500, 9000}]

InitEntry == BotInit /\ call \in EntryCalls

\* the entry analysis detect_whale_activity asks for, for one bet
CallEntry ==
    /\ call.fn = "args"
    /\ call' = [fn |-> "entry_analysis", args |-> call,
                result |-> EntryAnalysis(
                    Order("T1", "0xW1aaaaaaaa", call.amountFilled, 1, call.side, "", FALSE,
                          Some(now - 10), None, None, None),
                    ParseAmount(call.amountFilled)[1], orders, whale_history, now,
                    [yes |-> Some(call.yes), no |-> Some(10000 - call.yes)])]
    /\ UNCHANGED botVars

NextEntry == CallEntry

SpecEntry == InitEntry /\ [][NextEntry]_vars

\* the price of the side the bet is on
SidePrice(c) == IF c.side = "Yes" THEN c.yes ELSE 10000 - c.yes

HasNote(notes, text) == \E i \in 1..Len(notes) : notes[i].text = text

\* C23: the entry analysis of a whale bet whose own side is priced below 40%
\* holds the reason "Excellent entry" (+25), and that of a bet whose own side
\* is priced at 75% or more holds the warning "BAD ENTRY" (-20), on Yes and
\* on No alike.
C23_EntryPriceOfOwnSide ==
    call.fn = "entry_analysis" =>
        /\ SidePrice(call.args) < 4000
             => HasNote(call.result.reasons, "Excellent entry (n% odds)")
        /\ SidePrice(call.args) >= 7500
             => HasNote(call.result.warnings, "BAD ENTRY! Already at n% odds")

----------------------------------------------------------------------------
(* get_wallet_win_rate on its own: the tables are drawn at the start        *)

MaxSettled == 3

\* `bets` rows of the first wallet in the orders table, each of `amount`
BetLedger(bets, amount) ==
    {[order_hash |-> <<"B", "0xW1aaaaaaaa", i>>, market_id |-> 1, wallet |-> "0xW1aaaaaaaa",
      side |-> 0, amount |-> amount, timestamp |-> StartTime - 10] : i \in 1..bets}

\* rows of the first wallet in whale_history: `wins` settled as WIN, then
\* `losses` settled as LOSS, then one still PENDING
SettledHistory(wins, losses) ==
    [i \in 1..(wins + losses + 1) |->
        [wallet |-> "0xW1aaaaaaaa", market_id |-> 1, side |-> "Yes", amount |-> 15000,
         bet_timestamp |-> StartTime - 10,
         result |-> IF i <= wins THEN "WIN"
                    ELSE IF i <= wins + losses THEN "LOSS" ELSE "PENDING"]]

WinRateCalls ==
    [fn : {"args"}, wins : 0..MaxSettled, losses : 0..MaxSettled,
     bets : {0, 10, 11}, amount : {5000, 100000}]

InitWinRate == BotInit /\ call \in WinRateCalls

CallWinRate ==
    /\ call.fn = "args"
    /\ call' = [fn |-> "get_wallet_win_rate", args |-> call,
                result |-> get_wallet_win_rate("0xW1aaaaaaaa",
                                               BetLedger(call.bets, call.amount),
                                               SettledHistory(call.wins, call.losses))]
    /\ UNCHANGED botVars

NextWinRate == CallWinRate

SpecWinRate == InitWinRate /\ [][NextWinRate]_vars

\* C24: with settled bets in whale_history the win rate returned is
\* floor(100 * wins / (wins + losses)), also when that is 0; the estimate
\* from the volume tiers is returned only when no bet is settled.
C24_SettledRateWins ==
    call.fn = "get_wallet_win_rate" =>
        LET wins == call.args.wins
            losses == call.args.losses
        IN  /\ wins + losses > 0
                 => call.result.win_rate = (100 * wins) \div (wins + losses)
            /\ wins + losses = 0
                 => call.result.win_rate =
                        EstimatedWinRate(call.args.bets, call.args.bets * call.args.amount)

----------------------------------------------------------------------------
(* Inputs the scorer does not have                                          *)

\* the warnings of the factors other than the time to close
OtherWarnings(c) ==
    BetSizeFactor(c.amount).warnings \o WinRateFactor(c.whale_win_rate).warnings
        \o EntryPriceFactor(c.side, c.current_odds).warnings
        \o LiquidityFactor(c.market_volume).warnings

\* C25: when current_odds is None the warnings of calculate_entry_quality
\* hold "Odds unknown", and when days_to_close is None they hold an entry
\* for the time to close, beyond the warnings of the other four factors.
C25_MissingInputWarned ==
    call.fn = "calculate_entry_quality" =>
        /\ call.args.current_odds = None
             => HasNote(call.result.warnings, "Odds unknown - check manually!")
        /\ call.args.days_to_close = None
             => Len(call.result.warnings) > Len(OtherWarnings(call.args))

----------------------------------------------------------------------------
(* The fields the four detectors read of one record                         *)

\* trades of $150 on market 1: one whose tokenId and takerAmount say the
\* same as market.id and amountFilled, one whose tokenId and takerAmount say
\* otherwise, and one that carries neither
FieldsFeed ==
    {Order("T1", "0xW1aaaaaaaa", "150", 1, "Yes", "", TRUE, Some(StartTime - 10),
           Some(1), Some("150"), Some(0)),
     Order("T2", "0xW1aaaaaaaa", "150", 1, "Yes", "", TRUE, Some(StartTime - 10),
           Some(2), Some("1000"), Some(0)),
     Trade("T3", "150")}

PollFields == PollTrades(FieldsFeed)

NextFields ==
    \/ PollFields
    \/ Send
    \/ Restart

SpecFields == Init /\ [][NextFields]_vars

\* the new orders of a batch on the market of `order`, by market.id
OnMarketOf(batch, order) == SelectSeq(batch, LAMBDA o : o.market_id = order.market_id)

\* C26: after an iteration whose writes succeed, the snapshot that
\* detect_volume_spikes saved for the hour holds, for every new order, a row
\* for the order's market_id with the number and the total amountFilled of
\* the new orders on that market, as the other detectors and the ledger
\* count them.
C26_SpikeSeesSameTrades ==
    [][(polls' /= polls /\ call'.fn = "get_order_matches" /\ call'.dbw) =>
          \A i \in 1..Len(last'.new_orders) :
              \E k \in 1..Len(market_volume') :
                  /\ market_volume'[k].timestamp = HourBucket(now')
                  /\ market_volume'[k].market_id = Some(last'.new_orders[i].market_id)
                  /\ market_volume'[k].trade_count =
                         Len(OnMarketOf(last'.new_orders, last'.new_orders[i]))
                  /\ market_volume'[k].volume =
                         TotalAmount(OnMarketOf(last'.new_orders, last'.new_orders[i]))]_vars

\* an iteration on the record whose fields agree has saved the snapshot of
\* market 1 with the amount the ledger holds
C26_AgreeingRecordCounted ==
    /\ polls = 1
    /\ Len(last.new_orders) = 1 /\ last.new_orders[1].tokenId = Some(1)
    /\ \E k \in 1..Len(market_volume) :
          market_volume[k].market_id = Some(1) /\ market_volume[k].volume = 15000
    /\ \E row \in orders : row.market_id = 1 /\ row.amount = 15000

----------------------------------------------------------------------------
(* What a whale candidate leaves behind                                     *)

\* the entries an iteration has added to self.alerted_transactions
AddedIds == alerted_transactions' \ alerted_transactions

\* the rows an iteration has appended to whale_history
AddedHistory == SubSeq(whale_history', Len(whale_history) + 1, Len(whale_history'))

\* the id is the one of a Whale alert the iteration returned
IdOfAlert(id) == \E j \in 1..Len(last'.whale_alerts) : last'.whale_alerts[j].alert_id[1] = id

\* every Whale alert returned or stored has a score of at least 35 and an
\* amount at or above the threshold
FloorHolds ==
    /\ \A j \in 1..Len(last'.whale_alerts) :
          /\ last'.whale_alerts[j].entry_score >= 35
          /\ MeetsThreshold(last'.whale_alerts[j].amount, whale_threshold)
    /\ \A k \in 1..Len(alerts') :
          alerts'[k].type = "WHALE_BET" => alerts'[k].entry_score >= 35

----------------------------------------------------------------------------
(* Trades of tracked wallets                                                *)

\* the new orders of a batch whose wallet is in the tracked set
ByTracked(batch) == SelectSeq(batch, LAMBDA o : o.signer \in tracked_wallets)

\* the Tracked-wallet alerts of a list
TrackedOf(list) == SelectSeq(list, LAMBDA a : a.type = "TRACKED_WALLET")

\* C28: the alerts an iteration hands on hold one Tracked-wallet alert for
\* each new order whose wallet is in the tracked set, in the order of the
\* batch, and no other Tracked-wallet alert, whatever the Whale detector did
\* with the same orders.
C28_OneAlertPerTrackedTrade ==
    [][polls' /= polls =>
          /\ Len(TrackedOf(all_alerts')) = Len(ByTracked(last'.new_orders))
          /\ \A k \in 1..Len(TrackedOf(all_alerts')) :
                /\ TrackedOf(all_alerts')[k].wallet = ByTracked(last'.new_orders)[k].signer
                /\ TrackedOf(all_alerts')[k].market_id
                       = ByTracked(last'.new_orders)[k].market_id]_vars

\* C28 for the iterations whose new orders all carry an amount that parses
C28_OneAlertPerWellFormedTrade ==
    [][(polls' /= polls /\ WellFormed(last'.new_orders) = last'.new_orders) =>
          /\ Len(TrackedOf(all_alerts')) = Len(ByTracked(last'.new_orders))
          /\ \A k \in 1..Len(TrackedOf(all_alerts')) :
                /\ TrackedOf(all_alerts')[k].wallet = ByTracked(last'.new_orders)[k].signer
                /\ TrackedOf(all_alerts')[k].market_id
                       = ByTracked(last'.new_orders)[k].market_id]_vars

----------------------------------------------------------------------------
(* detect_coordinated_activity on groups with one trade of another age      *)

\* groups of n bets on Yes of market 1 by n wallets, each of `amount`
\* dollars: the first made `stamp` seconds ago, or without executedAt, the
\* others made 10 seconds ago
WindowCalls ==
    [fn : {"args"}, n : 4..MaxGroup, amountFilled : {"100", "150"},
     stamp : {None, Some(60), Some(COORDINATION_WINDOW), Some(COORDINATION_WINDOW + 1)},
     description : {"", "Resolves soon", "Resolves today", "Resolves this week",
                    "Resolves by 2027", "Resolves today, November 5, 2026"}]

WindowBatch(c) ==
    [i \in 1..c.n |->
        Order("", WalletOf(i), c.amountFilled, 1, "Yes", c.description, FALSE,
              IF i > 1 THEN Some(now - 10)
              ELSE IF c.stamp = None THEN None ELSE Some(now - c.stamp[1]),
              None, None, None)]

InitWindow == BotInit /\ call \in WindowCalls

CallWindow ==
    /\ call.fn = "args"
    /\ call' = [fn |-> "detect_coordinated_activity", args |-> call,
                batch |-> WindowBatch(call),
                result |-> detect_coordinated_activity(WindowBatch(call), now).out]
    /\ UNCHANGED botVars

NextWindow == CallWindow

SpecWindow == InitWindow /\ [][NextWindow]_vars

\* the trades of the batch that carry a timestamp and are at most the window
\* old, counted from the time of the call
Recent(batch) ==
    {i \in 1..Len(batch) :
        /\ batch[i].executedAt /= None
        /\ now - batch[i].executedAt[1] <= COORDINATION_WINDOW}

\* C29: the wallets counted and the amount summed for a group are those of
\* its trades that carry a timestamp at most 300 seconds before the call,
\* and the gates are applied to that count and that sum.
C29_WindowFromNow ==
    call.fn = "detect_coordinated_activity" =>
        LET recent == Recent(call.batch)
            wallets == Cardinality({call.batch[i].signer : i \in recent})
            total == SumSeq([i \in 1..Len(call.batch) |->
                               IF i \in recent
                               THEN ParseAmount(call.batch[i].amountFilled)[1] ELSE 0])
        IN  /\ call.result /= <<>>
                 <=> /\ wallets >= 5 /\ total >= 50000
                     /\ CloseSoon(call.args.description)
            /\ \A k \in 1..Len(call.result) :
                  /\ call.result[k].wallet_count = wallets
                  /\ call.result[k].total_amount = total

\* five wallets with $150 each on a market that resolves today, the first
\* trade 301 seconds old: four wallets count and no alert is returned
C29_OldTradeLeftOut ==
    /\ call.fn = "detect_coordinated_activity"
    /\ call.args.n = 5 /\ call.args.amountFilled = "150"
    /\ call.args.stamp = Some(COORDINATION_WINDOW + 1)
    /\ call.args.description = "Resolves today"
    /\ call.result = <<>>

\* the description holds none of the words the gate looks for
NoSignal(description) ==
    ~MentionsFarYear(description) /\ ~MentionsToday(description)
        /\ ~MentionsWeek(description)

\* C30: a group of at least 5 wallets and $500 inside the window alerts when
\* the description of its market holds no resolution signal, and when it
\* says that the market resolves today, tomorrow or this week.
C30_PermissiveGate ==
    call.fn = "detect_coordinated_activity" =>
        LET recent == Recent(call.batch)
            wallets == Cardinality({call.batch[i].signer : i \in recent})
            total == SumSeq([i \in 1..Len(call.batch) |->
                               IF i \in recent
                               THEN ParseAmount(call.batch[i].amountFilled)[1] ELSE 0])
        IN  (/\ wallets >= 5 /\ total >= 50000
             /\ \/ NoSignal(call.args.description)
                \/ MentionsToday(call.args.description)
                \/ MentionsWeek(call.args.description))
                => call.result /= <<>>

\* C30 for the descriptions that mention neither 2026 nor 2027
C30_PermissiveWithoutFarYear ==
    call.fn = "detect_coordinated_activity" =>
        LET recent == Recent(call.batch)
            wallets == Cardinality({call.batch[i].signer : i \in recent})
            total == SumSeq([i \in 1..Len(call.batch) |->
                               IF i \in recent
                               THEN ParseAmount(call.batch[i].amountFilled)[1] ELSE 0])
        IN  (/\ wallets >= 5 /\ total >= 50000
             /\ ~MentionsFarYear(call.args.description))
                => call.result /= <<>>

----------------------------------------------------------------------------
(* The hourly snapshots of market_volume                                    *)

\* the rows of market_volume of one market and one hour bucket
SnapshotRows(market_id, bucket) ==
    {k \in 1..Len(market_volume) : /\ market_volume[k].market_id = market_id
                                   /\ market_volume[k].timestamp = bucket}

\* C31: market_volume holds at most one snapshot for each market_id and hour
\* bucket, whatever save_market_volume calls have been made.
C31_OneSnapshotPerBucket ==
    \A k \in 1..Len(market_volume) :
        Cardinality(SnapshotRows(market_volume[k].market_id,
                                 market_volume[k].timestamp)) = 1

\* the same for the markets whose id is known: a second write within the
\* hour replaces the row of the first
C31_OneSnapshotPerKnownMarket ==
    \A k \in 1..Len(market_volume) :
        market_volume[k].market_id /= None =>
            Cardinality(SnapshotRows(market_volume[k].market_id,
                                     market_volume[k].timestamp)) = 1

\* two iterations within one hour have each saved a snapshot of market 1,
\* and one row is left
C31_SnapshotReplaced ==
    /\ polls = 2
    /\ hist.admitted1 \cup hist.admitted2 = FieldsFeed
    /\ Cardinality(SnapshotRows(Some(1), HourBucket(now))) = 1

----------------------------------------------------------------------------
(* The dominant side of a volume spike                                      *)

\* the takerAmount of the orders of a batch on one token, by side
BatchSideVolume(batch, token, yes) ==
    SumSeq([i \in 1..Len(batch) |->
              IF batch[i].tokenId = token /\ (batch[i].side = Some(0)) = yes
              THEN SpikeAmount(batch[i])[1] ELSE 0])

\* C32: the dominant side of a Volume-Spike alert is YES exactly when the
\* YES volume of the batch on the token is strictly greater than its NO
\* volume, and NO otherwise, ties included; the side percentage is the
\* share of the larger side in the volume of the batch and lies within 50
\* and 100.
C32_DominantSide ==
    call.fn = "detect_volume_spikes" =>
        \A i \in 1..Len(call.result) :
            LET yes_vol == BatchSideVolume(call.args.batch, call.result[i].market_id, TRUE)
                no_vol == BatchSideVolume(call.args.batch, call.result[i].market_id, FALSE)
                pct == call.result[i].side_percentage
            IN  /\ call.result[i].dominant_side = "YES" <=> yes_vol > no_vol
                /\ call.result[i].dominant_side = "NO" <=> yes_vol <= no_vol
                /\ pct = <<100 * Max(yes_vol, no_vol), yes_vol + no_vol>>
                /\ pct[2] > 0
                /\ 50 * pct[2] <= pct[1] /\ pct[1] <= 100 * pct[2]

\* a batch of $3000 on YES and $3000 on NO of one token spikes: the alert
\* names NO with 50 percent
C32_TieGoesToNo ==
    /\ call.fn = "detect_volume_spikes"
    /\ \E i \in 1..Len(call.result) :
          /\ BatchSideVolume(call.args.batch, call.result[i].market_id, TRUE) = 300000
          /\ BatchSideVolume(call.args.batch, call.result[i].market_id, FALSE) = 300000
          /\ call.result[i].dominant_side = "NO"
          /\ call.result[i].side_percentage = <<30000000, 600000>>

----------------------------------------------------------------------------
(* The stages of one iteration                                              *)

\* the new orders of the iteration that the ledger handed to the detectors
\* has no row for
Unrecorded(new, ledger) ==
    {i \in 1..Len(new) : ~is_order_processed(new[i], ledger)}

\* C33: in every iteration the ledger the detectors read holds a row for
\* every new order of the batch, and nothing is handed to
\* send_telegram_alert before the four detectors have returned.
C33_BatchRecordedBeforeDetectors ==
    [][polls' /= polls =>
          /\ Unrecorded(last'.new_orders, orders') = {}
          /\ sent' = sent]_vars

\* the same for an iteration whose ledger writes succeed on a feed whose
\* amounts parse
C33_RecordedWhenSaved ==
    [][(polls' /= polls /\ call'.fn = "get_order_matches" /\ call'.dbw) =>
          /\ Unrecorded(last'.new_orders, orders') = {}
          /\ sent' = sent]_vars

----------------------------------------------------------------------------
(* The two settings under the commands and buttons that write them          *)

NextConfig ==
    \/ PollLive
    \/ PollPaused
    \/ Send
    \/ cmd_setwhale
    \/ cmd_setcoord
    \/ PressWhale
    \/ PressCoord
    \/ cmd_track
    \/ cmd_untrack
    \/ cmd_pause
    \/ cmd_resume
    \/ Restart

\* The monitor with every command and button that writes a setting.
SpecConfig == Init /\ [][NextConfig]_vars

\* C34: after any sequence of /setwhale, /setcoord and settings buttons the
\* whale threshold lies within $0.01 and $100000 and the coordination
\* minimum within 2 and 20.
C34_SettingsInRange ==
    /\ whale_threshold >= 1 /\ whale_threshold <= 10000000
    /\ min_coordinated >= 2 /\ min_coordinated <= 20

\* the coordination minimum alone
C34_CoordInRange == min_coordinated >= 2 /\ min_coordinated <= 20

\* the whale threshold as long as no /setwhale argument is a NaN
C34_WhaleInRangeOrNaN ==
    whale_threshold /= NaN => whale_threshold >= 1 /\ whale_threshold <= 10000000

----------------------------------------------------------------------------
(* The tracked set in memory and the registry table                         *)

\* C35: a /track or /untrack command that finds self.tracked_wallets equal
\* to the wallets of table tracked_wallets leaves them equal, also when the
\* registry write fails.
C35_SetAndRegistryAgree ==
    [][((cmd_track \/ cmd_untrack) /\ tracked_wallets = tracked_table)
          => tracked_wallets' = tracked_table']_vars

----------------------------------------------------------------------------
(* What get_order_matches returns and what the ledger holds                 *)

\* C36: every trade that the last get_order_matches returned as new has a
\* row in the orders ledger, also when a ledger write has failed.
C36_AdmittedIsRecorded ==
    \A i \in 1..Len(last.new_orders) : is_order_processed(last.new_orders[i], orders)

\* a trade that was returned as new without a row in the ledger has been
\* returned as new again by the next poll
C36_AdmittedAgain ==
    /\ polls = 2
    /\ \E order \in hist.admitted2 : order \in Range(last.new_orders)

----------------------------------------------------------------------------
(* The alerts an iteration stores and the alerts it sends                   *)

\* the rows an iteration has added to table alerts that are not in the list
\* the iteration goes on to send
StoredNotQueued ==
    {k \in (Len(alerts) + 1)..Len(alerts') :
        \A j \in 1..Len(all_alerts') : all_alerts'[j] /= alerts'[k]}

\* C37: every alert an iteration writes to table alerts is in the list the
\* iteration hands to send_telegram_alert, also when a detector raised after
\* it had saved the alert.
C37_StoredIsNotified == [][polls' /= polls => StoredNotQueued = {}]_vars

\* the same for the batches in which every amountFilled parses, so that no
\* detector raises
C37_StoredIsNotifiedWhenNoneRaises ==
    [][(polls' /= polls /\ \A i \in 1..Len(last'.new_orders) :
                              ParseAmount(last'.new_orders[i].amountFilled) /= None)
          => StoredNotQueued = {}]_vars

----------------------------------------------------------------------------
(* Command handlers and the detection of a batch                            *)

\* a step of a command handler or of a settings button
HandlerStep ==
    \/ cmd_setwhale \/ cmd_setcoord \/ PressWhale \/ PressCoord
    \/ cmd_track \/ cmd_untrack \/ cmd_pause \/ cmd_resume

\* C38: an iteration with monitoring active, from the fetch to the end of
\* the fourth detector, leaves the settings as it found them and tests the
\* whole batch against them: every Whale alert meets the whale threshold of
\* the state the iteration started in, and every Tracked-wallet alert is
\* for a wallet tracked in that state.  A command handler runs while the
\* loop is at the sleep or at a send, and leaves the position of the loop,
\* the batch in flight and the tables the detectors read as they are.
C38_SettingsStableInBatch ==
    [][/\ (polls' /= polls /\ monitoring_active) =>
            /\ whale_threshold' = whale_threshold
            /\ min_coordinated' = min_coordinated
            /\ tracked_wallets' = tracked_wallets
            /\ monitoring_active' = monitoring_active
            /\ last'.threshold = whale_threshold
            /\ \A i \in 1..Len(last'.whale_alerts) :
                  MeetsThreshold(last'.whale_alerts[i].amount, whale_threshold)
            /\ \A i \in 1..Len(all_alerts') :
                  all_alerts'[i].type = "TRACKED_WALLET"
                      => all_alerts'[i].wallet \in tracked_wallets
       /\ HandlerStep =>
            /\ pc \in {"sleep", "send"}
            /\ UNCHANGED <<pc, polls, orders, alerts, whale_history, market_volume,
                           alerted_transactions, all_alerts, sent, last>>]_vars

\* a handler has set another whale threshold between two sends of a batch
\* that was tested against the threshold of before, and a wallet is tracked
C38_ChangedBetweenSends ==
    /\ pc = "send"
    /\ sent /= <<>>
    /\ last.whale_alerts /= <<>>
    /\ whale_threshold /= last.threshold
    /\ tracked_wallets /= {}

----------------------------------------------------------------------------
(* The alerted-transaction set within one run of the process                *)

\* two whale trades of two wallets that share the hash T1, and a whale trade
\* on market 2 that carries no hash
HashFeed ==
    {Trade("T1", "150"),
     Order("T1", "0xW2aaaaaaaa", "150.25", 1, "Yes", "", TRUE, Some(StartTime - 10),
           None, None, None),
     Hashless(2, Some(StartTime - 10))}

PollHash == PollTrades(HashFeed)

NextHash ==
    \/ PollHash
    \/ Send
    \/ Restart

SpecHash == Init /\ [][NextHash]_vars

\* the first component of the alert_id of a Whale alert: the entry the
\* detector adds to self.alerted_transactions
AlertedId(alert) == alert.alert_id[1]

FromHash(id) == id[1] /= "fallback"

\* C39: as long as the process runs, self.alerted_transactions loses no
\* entry; a Whale alert for a trade with a transaction hash is returned only
\* when the hash is not in the set, the hash is in the set afterwards, and
\* no two Whale alerts of one iteration have the same hash, so that one
\* hash leads to at most one Whale alert per run.  A restart restores no
\* fallback identity into the set, and for a trade without a hash the
\* detector decides as it would with the empty set.
C39_OneWhaleAlertPerHash ==
    /\ [][/\ ~Restart => alerted_transactions \subseteq alerted_transactions'
          /\ polls' /= polls =>
                \A i \in 1..Len(last'.whale_alerts) :
                    FromHash(AlertedId(last'.whale_alerts[i])) =>
                        /\ AlertedId(last'.whale_alerts[i]) \notin alerted_transactions
                        /\ AlertedId(last'.whale_alerts[i]) \in alerted_transactions'
                        /\ \A j \in 1..Len(last'.whale_alerts) :
                              AlertedId(last'.whale_alerts[j])
                                  = AlertedId(last'.whale_alerts[i]) => j = i
          /\ Restart => \A id \in alerted_transactions' : FromHash(id)]_vars
    /\ [](\A order \in HashFeed, api \in ApiAnswers :
              order.transactionHash = "" =>
                  (WouldAlertWith(order, api, alerted_transactions)
                       <=> WouldAlertWith(order, api, {})))

\* both trades of hash T1 were returned as new and one Whale alert with that
\* hash is stored; the trade without a hash has its Whale alert stored under
\* a fallback identity, which a restart has not restored into the set
C39_SharedHashAlertedOnce ==
    /\ {order \in HashFeed : order.transactionHash = "T1"} \subseteq hist.admitted1
    /\ Cardinality({k \in 1..Len(alerts) : AlertedId(alerts[k]) = TxId("T1")}) = 1
    /\ \E k \in 1..Len(alerts) : ~FromHash(AlertedId(alerts[k]))
    /\ alerted_transactions = {TxId("T1")}

=============================================================================
